---- MODULE Spec2Model ----
(***************************************************************************)
(* Afiliados Pro Hub backend (src/src/index.js): the referral tree, sale   *)
(* intake (POST /bundle/sales), commission distribution and the lazy       *)
(* release of held commissions (refreshPendingCommissions), as a state     *)
(* machine over the Firestore collections the handlers read and write.     *)
(*                                                                         *)
(* Every handler is cut at its awaits: one action per awaited store call,  *)
(* so that concurrent requests interleave exactly where the code can be    *)
(* suspended.  Money is counted in cents (integers); time in days.         *)
(***************************************************************************)
EXTENDS Integers, Sequences, FiniteSets, TLC

(***************************************************************************)
(* Bounds of the model.                                                    *)
(***************************************************************************)
NUsers == 4          \* participants 1..NUsers
NKeys == 2           \* idempotency keys (externalId) 1..NKeys
MaxSales == 2        \* POST /bundle/sales requests
MaxSettle == 2       \* refreshPendingCommissions invocations
MaxBoot == 2         \* POST /users/bootstrap requests
MaxPlan == 2         \* plan-changing requests
MaxAdmin == 1        \* DELETE /admin/users/:uid requests
MaxOps == 3          \* requests started in one behaviour of the whole system
Slack == 1           \* days observed past the hold deadline
MaxViews == 2        \* GET /dashboard and GET /network requests

(***************************************************************************)
(* Program constants.                                                      *)
(***************************************************************************)
REFUND_HOLD_DAYS == 14
FX_PEN_TO_USD == 27          \* 0.27, in hundredths
MaxChainLevel == 4           \* for (let level = 1; level <= 4 && currentRef; ...)
MinCodeBody == 4             \* /^AF-[A-Z0-9]{4,}$/
DownlineLevels == 4          \* buildDownline(uid, 4)

Users == 1..NUsers
Keys == 1..NKeys
SaleIds == 1..MaxSales
SettleIds == 1..MaxSettle
BootIds == 1..MaxBoot
PlanIds == 1..MaxPlan
AdminIds == 1..MaxAdmin
ViewIds == 1..MaxViews
Null == 0                    \* null
Undefined == -1              \* a field the document does not have
MaxTime == REFUND_HOLD_DAYS + Slack
\* The instants at which the clock is observed after time 0: the day before the
\* first hold deadline, the deadline, and the days after it.
Instants == (REFUND_HOLD_DAYS - 1)..MaxTime

planOrder == <<"basic", "pro", "elite">>
Plans == {planOrder[i] : i \in 1..Len(planOrder)}
NoPlan == "none"             \* the field is missing from the document

commissionByLevel == <<50, 20, 10, 5>>

\* planLevelCap with Elite capped one level short.
planLevelCapShort(plan) ==
    IF plan = "elite" THEN 3
    ELSE IF plan = "pro" THEN 2
    ELSE 1

planLevelCap(plan) ==
    IF plan = "elite" THEN 4
    ELSE IF plan = "pro" THEN 2
    ELSE 1

(***************************************************************************)
(* JavaScript numbers.  A double is [neg, m, e]: its sign, its significand  *)
(* as a natural number, written in limbs of LimbBits bits with the least    *)
(* significant limb first, and the binary exponent; its magnitude is        *)
(* m * 2^e.  Every operation computes the exact result and rounds it to     *)
(* MantissaBits bits, to nearest and ties to even.  The values of the       *)
(* program are far from the subnormal and the overflow range.               *)
(***************************************************************************)
MantissaBits == 53
LimbBits == 15
Base == 2 ^ LimbBits
\* Limbs a dividend is extended by before a division, so that the quotient
\* has more than MantissaBits bits.
QuotientLimbs == 4

RECURSIVE NatLimbs(_)
NatLimbs(n) == IF n = 0 THEN << >> ELSE <<n % Base>> \o NatLimbs(n \div Base)

RECURSIVE AddLimbs(_, _, _)
AddLimbs(a, b, carry) ==
    IF a = << >> /\ b = << >>
    THEN (IF carry = 0 THEN << >> ELSE <<carry>>)
    ELSE LET x == IF a = << >> THEN 0 ELSE Head(a)
             y == IF b = << >> THEN 0 ELSE Head(b)
             sum == x + y + carry
         IN <<sum % Base>> \o AddLimbs(IF a = << >> THEN a ELSE Tail(a),
                                       IF b = << >> THEN b ELSE Tail(b), sum \div Base)

\* a * k for one limb k.
RECURSIVE MulLimb(_, _, _)
MulLimb(a, k, carry) ==
    IF a = << >> THEN (IF carry = 0 THEN << >> ELSE <<carry>>)
    ELSE LET product == Head(a) * k + carry
         IN <<product % Base>> \o MulLimb(Tail(a), k, product \div Base)

RECURSIVE MulLimbs(_, _)
MulLimbs(a, b) ==
    IF a = << >> THEN << >>
    ELSE AddLimbs(MulLimb(b, Head(a), 0), <<0>> \o MulLimbs(Tail(a), b), 0)

\* Long division of a by the small number d, from the most significant limb
\* down: quotient and remainder.
RECURSIVE DivLimbs(_, _)
DivLimbs(a, d) ==
    IF a = << >> THEN [q |-> << >>, r |-> 0]
    ELSE LET high == DivLimbs(Tail(a), d)
             cur == high.r * Base + Head(a)
         IN [q |-> <<cur \div d>> \o high.q, r |-> cur % d]

\* Bit i (from 1, the least significant) of the number a.
Bit(a, i) ==
    IF i < 1 \/ i > LimbBits * Len(a) THEN 0
    ELSE (a[((i - 1) \div LimbBits) + 1] \div (2 ^ ((i - 1) % LimbBits))) % 2

BitLen(a) ==
    LET ones == {i \in 1..(LimbBits * Len(a)) : Bit(a, i) = 1}
    IN IF ones = {} THEN 0 ELSE CHOOSE i \in ones : \A j \in ones : j <= i

\* The number made of the bits from..to of a, as an integer.
RECURSIVE BitsNat(_, _, _)
BitsNat(a, from, to) ==
    IF from > to THEN 0 ELSE Bit(a, from) + 2 * BitsNat(a, from + 1, to)

\* The number made of the n bits of a from bit from on, in limbs.
BitsFrom(a, from, n) ==
    [j \in 1..((n + LimbBits - 1) \div LimbBits) |->
        LET low == from + (j - 1) * LimbBits
            high == IF j * LimbBits < n THEN low + LimbBits - 1 ELSE from + n - 1
        IN BitsNat(a, low, high)]

\* The double of sign neg nearest in magnitude to a * 2^e (plus a nonzero rest
\* below the last bit when sticky), ties to even.
RoundToDouble(neg, a, e, sticky) ==
    LET len == BitLen(a)
        d == len - MantissaBits
    IN IF d <= 0 THEN [neg |-> neg, m |-> a, e |-> e]
       ELSE LET kept == BitsFrom(a, d + 1, MantissaBits)
                rest == sticky \/ \E i \in 1..(d - 1) : Bit(a, i) = 1
                up == Bit(a, d) = 1 /\ (rest \/ Bit(a, d + 1) = 1)
            IN [neg |-> neg, m |-> IF up THEN AddLimbs(kept, << >>, 1) ELSE kept,
                e |-> e + d]

\* An integer as a double (exact below 2^31).
IntegerDouble(n) == [neg |-> n < 0, m |-> NatLimbs(IF n < 0 THEN 0 - n ELSE n), e |-> 0]

\* x * y
Times(x, y) == RoundToDouble(x.neg # y.neg, MulLimbs(x.m, y.m), x.e + y.e, FALSE)

\* x / d for a positive integer d below 2^15
Over(x, d) ==
    LET division == DivLimbs([i \in 1..QuotientLimbs |-> 0] \o x.m, d)
    IN RoundToDouble(x.neg, division.q, x.e - QuotientLimbs * LimbBits, division.r # 0)

\* Math.round: the nearest integer, and of the two nearest the greater one.
MathRound(x) ==
    IF x.e >= 0 THEN (IF x.neg THEN -1 ELSE 1) * BitsNat(x.m, 1, BitLen(x.m)) * (2 ^ x.e)
    ELSE LET whole == BitsNat(x.m, 1 - x.e, BitLen(x.m))
             half == Bit(x.m, 0 - x.e) = 1
             below == \E i \in 1..(0 - x.e - 1) : Bit(x.m, i) = 1
         IN IF x.neg
            THEN 0 - (whole + (IF half /\ below THEN 1 ELSE 0))
            ELSE whole + (IF half THEN 1 ELSE 0)

\* The double a number with two decimals is stored and parsed as: the double
\* nearest to hundredths / 100.
Number(hundredths) == Over(IntegerDouble(hundredths), 100)

\* round2: Math.round(Number(value) * 100) / 100.  The result is the double
\* Number(n) of an integer n of cents; round2 gives n.
round2(value) == MathRound(Times(value, IntegerDouble(100)))

\* penToUsd: round2(penValue * FX_PEN_TO_USD); centimos in, cents out.
penToUsd(penValue) == round2(Times(Number(penValue), Number(FX_PEN_TO_USD)))

\* round2((amountUsd * percent) / 100), in cents.
commissionAmount(amountUsd, percent) ==
    round2(Over(Times(Number(amountUsd), IntegerDouble(percent)), 100))

\* The amounts in centimos the sale requests of the model carry, and the
\* numbers the program computes from them.
SaleAmountsPen == {37037, 105, 107, 0, -100}
Percents == {commissionByLevel[l] : l \in 1..Len(commissionByLevel)}
amountUsdOf == [amountPen \in SaleAmountsPen |-> penToUsd(amountPen)]
commissionAmountOf ==
    [amountUsd \in {amountUsdOf[a] : a \in SaleAmountsPen}, percent \in Percents |->
        commissionAmount(amountUsd, percent)]

\* holdUntilDate(): Date.now() + REFUND_HOLD_DAYS days.
holdUntilDate(t) == t + REFUND_HOLD_DAYS

(***************************************************************************)
(* Referral codes are character sequences.                                 *)
(***************************************************************************)
LowerLetters == <<"a","b","c","d","e","f","g","h","i","j","k","l","m",
                  "n","o","p","q","r","s","t","u","v","w","x","y","z">>
UpperLetters == <<"A","B","C","D","E","F","G","H","I","J","K","L","M",
                  "N","O","P","Q","R","S","T","U","V","W","X","Y","Z">>
Digits == {"0","1","2","3","4","5","6","7","8","9"}
UpperAlnum == {UpperLetters[i] : i \in 1..26} \cup Digits

\* String.prototype.toUpperCase, per character.
toUpperChar(ch) ==
    IF \E i \in 1..26 : LowerLetters[i] = ch
    THEN UpperLetters[CHOOSE i \in 1..26 : LowerLetters[i] = ch]
    ELSE ch
toUpperCase(s) == [i \in 1..Len(s) |-> toUpperChar(s[i])]

\* The pattern without its length: /^AF-[A-Z0-9]*$/.
isValidReferralCodeAnyLength(code) ==
    /\ Len(code) >= 3
    /\ code[1] = "A" /\ code[2] = "F" /\ code[3] = "-"
    /\ \A i \in 4..Len(code) : code[i] \in UpperAlnum

\* /^AF-[A-Z0-9]{4,}$/.test(code)
isValidReferralCode(code) ==
    /\ Len(code) >= 3 + MinCodeBody
    /\ code[1] = "A" /\ code[2] = "F" /\ code[3] = "-"
    /\ \A i \in 4..Len(code) : code[i] \in UpperAlnum

\* generateReferralCode's alphabet; participant i holds the code
\* AF-AAAAA<i-th letter of the alphabet>.
CodeAlphabet == <<"A","B","C","D","E","F","G","H","J","K","L","M","N","P","Q","R",
                  "S","T","U","V","W","X","Y","Z","2","3","4","5","6","7","8","9">>
CodeOf(i) == <<"A","F","-","A","A","A","A","A", CodeAlphabet[i]>>
NoCode == << >>
UnknownCode == <<"A","F","-","Z","Z","Z","Z","Z","Z">>
LowerCodeOf(i) == <<"a","f","-","a","a","a","a","a", CodeAlphabet[i]>>
BadCode == <<"A","F","-","A","A">>

VARIABLES
    users,        \* collection "users": uid -> document
    stats,        \* collection "stats": uid -> Balance Record
    bundleSales,  \* collection "bundleSales": key -> Sale
    commissions,  \* collection "commissions": sequence of Commission Entries
    activity,     \* users/<uid>/activity: number of notes per uid
    now,          \* the clock, in days
    network,      \* users/<referrer>/network/<uid>: the edges <<referrer, uid>>
    sale,         \* POST /bundle/sales requests: locals and position
    settle,       \* refreshPendingCommissions invocations: locals and position
    boot,         \* POST /users/bootstrap requests
    planreq,      \* plan-changing requests (self-service upgrade, admin patch)
    admin,        \* DELETE /admin/users/:uid requests
    view,         \* GET /dashboard and GET /network requests
    inbox,        \* the POST /bundle/sales requests as sent: header and body
    SALES_API_KEY \* process.env.SALES_API_KEY || ""

vars == <<users, stats, bundleSales, commissions, activity, network, now,
          sale, settle, boot, planreq, admin, view, inbox, SALES_API_KEY>>

\* What no handler writes: the requests as sent and the configuration.
Given == UNCHANGED <<inbox, SALES_API_KEY>>

\* What the handlers of one kind leave alone besides the collections.
SaleFrame == Given /\ UNCHANGED <<network, now, settle, boot, planreq, admin, view>>
SettleFrame == Given /\ UNCHANGED <<network, now, sale, boot, planreq, admin, view>>
BootFrame == Given /\ UNCHANGED <<bundleSales, commissions, now, sale, settle, planreq,
                                  admin, view>>
PlanFrame == Given /\ UNCHANGED <<bundleSales, commissions, activity, network, now,
                                  sale, settle, boot, admin, view>>
AdminFrame == Given /\ UNCHANGED <<bundleSales, commissions, activity, now,
                                   sale, settle, boot, planreq, view>>
ViewFrame == Given /\ UNCHANGED <<users, bundleSales, network, now, sale, boot,
                                  planreq, admin>>

\* The subscription status a document without the field has.
NoStatus == "none"
NoUserDoc == [exists |-> FALSE, plan |-> NoPlan, status |-> NoStatus, referralCode |-> NoCode,
              referredBy |-> Null]
NoStatsDoc == [exists |-> FALSE, totalEarningsUsd |-> 0, availableBalanceUsd |-> 0,
               pendingBalanceUsd |-> 0, plan |-> NoPlan]
\* The document ensureStats writes (lines 246-253).
FreshStats(plan) ==
    [exists |-> TRUE, totalEarningsUsd |-> 0, availableBalanceUsd |-> 0,
     pendingBalanceUsd |-> 0, plan |-> plan]

NoSaleDoc == [exists |-> FALSE, status |-> "none", amountUsd |-> 0, referrerId |-> Null,
              holdUntil |-> 0]

\* { id: doc.id, ...doc.data() } of a users document, or null.
NoRef == [id |-> Null, plan |-> NoPlan, referredBy |-> Null]
RefOf(u) == [id |-> u, plan |-> users[u].plan, referredBy |-> users[u].referredBy]

\* !currentRef.referredBy
NoReferrer(ref) == ref.referredBy \in {Null, Undefined}

\* findUserByReferral: where("referralCode", "==", code).limit(1).  The values
\* the call may return: null when no document matches, otherwise any one of the
\* matching documents (the query has no order).
findUserByReferral(code) ==
    IF \E u \in Users : users[u].exists /\ users[u].referralCode = code
    THEN {RefOf(u) : u \in {v \in Users : users[v].exists /\ users[v].referralCode = code}}
    ELSE {NoRef}

IdleSale == [pc |-> "idle", key |-> 0, code |-> NoCode, amountUsd |-> 0,
             referrer |-> NoRef, holdUntil |-> 0, chain |-> << >>, cur |-> NoRef,
             result |-> "none"]
IdleSettle == [pc |-> "idle", uid |-> 0, snap |-> {}, releasedTotal |-> 0]
IdleBoot == [pc |-> "idle", uid |-> 0, referrerCode |-> NoCode, referralCode |-> NoCode,
             referredBy |-> Null, plan |-> NoPlan]
IdlePlan == [pc |-> "idle", kind |-> "none", event |-> "none", uid |-> 0, plan |-> NoPlan]
IdleAdmin == [pc |-> "idle", uid |-> 0, snap |-> {}]
\* dueAtArrival is not a local of the handler: it records which entries of the
\* participant were pending and past their deadline when the request's first
\* store call resolved.
IdleView == [pc |-> "idle", kind |-> "none", uid |-> 0, settle |-> 0, dueAtArrival |-> {},
             toRead |-> {}, planId |-> NoPlan, seenTotal |-> 0, seenAvailable |-> 0,
             maxLevels |-> 0, level |-> 0, ids |-> << >>, members |-> << >>,
             counts |-> << >>, upline |-> Null]

(***************************************************************************)
(* Inputs of POST /bundle/sales that pass the key check and the schema.    *)
(***************************************************************************)

\* ChainEntry with the level counted from the referrer's referrer.
ChainEntryFromParent(level, ref) ==
    [level |-> level - 1, id |-> ref.id, plan |-> ref.plan, referredBy |-> ref.referredBy]

\* uplineChain.push({ level, ...currentRef })
ChainEntry(level, ref) ==
    [level |-> level, id |-> ref.id, plan |-> ref.plan, referredBy |-> ref.referredBy]

\* upline.plan || "basic"
PlanOrBasic(plan) == IF plan = NoPlan THEN "basic" ELSE plan

\* Credited with the cap compared strictly.
CreditedBelowCap(upline) ==
    /\ upline.level < planLevelCap(PlanOrBasic(upline.plan))
    /\ upline.level \in 1..Len(commissionByLevel)
    /\ commissionByLevel[upline.level] # 0

\* The forEach body's two early returns: the beneficiary's own cap, and a
\* level without a percentage.
Credited(upline) ==
    /\ upline.level <= planLevelCap(PlanOrBasic(upline.plan))
    /\ upline.level \in 1..Len(commissionByLevel)
    /\ commissionByLevel[upline.level] # 0

\* batch.set(commissionRef, {...}) for one upline.
NewCommission(upline, saleId, amountUsd, holdUntil, t) ==
    [transactionId |-> saleId,
     beneficiaryId |-> upline.id,
     level |-> upline.level,
     percent |-> commissionByLevel[upline.level],
     amountUsd |-> commissionAmountOf[amountUsd, commissionByLevel[upline.level]],
     status |-> "pending",
     holdUntil |-> holdUntil,
     createdAt |-> t]

\* The commission documents uplineChain.forEach stages, in chain order.
RECURSIVE StagedCommissions(_, _, _, _, _)
StagedCommissions(chain, saleId, amountUsd, holdUntil, t) ==
    IF chain = << >> THEN << >>
    ELSE (IF Credited(Head(chain))
          THEN <<NewCommission(Head(chain), saleId, amountUsd, holdUntil, t)>>
          ELSE << >>)
         \o StagedCommissions(Tail(chain), saleId, amountUsd, holdUntil, t)

\* Sum of the amounts of the staged entries whose beneficiary is u.
RECURSIVE StagedFor(_, _)
StagedFor(staged, u) ==
    IF staged = << >> THEN 0
    ELSE (IF Head(staged).beneficiaryId = u THEN Head(staged).amountUsd ELSE 0)
         + StagedFor(Tail(staged), u)

\* CreditStats writing the amounts over the stored values.
CreditStatsOverwrite(st, staged) ==
    [u \in Users |->
        IF \E i \in 1..Len(staged) : staged[i].beneficiaryId = u
        THEN [st[u] EXCEPT !.exists = TRUE,
                           !.totalEarningsUsd = StagedFor(staged, u),
                           !.pendingBalanceUsd = StagedFor(staged, u)]
        ELSE st[u]]

\* CreditStats with the pending increment left out.
CreditStatsTotalOnly(st, staged) ==
    [u \in Users |->
        IF \E i \in 1..Len(staged) : staged[i].beneficiaryId = u
        THEN [st[u] EXCEPT !.exists = TRUE,
                           !.totalEarningsUsd = @ + StagedFor(staged, u)]
        ELSE st[u]]

\* batch.set(statsRef, {totalEarningsUsd: increment(a), pendingBalanceUsd:
\* increment(a)}, {merge: true}) for every staged entry: the document is created
\* when missing, and only the two incremented fields are touched.
CreditStats(st, staged) ==
    [u \in Users |->
        IF \E i \in 1..Len(staged) : staged[i].beneficiaryId = u
        THEN [st[u] EXCEPT !.exists = TRUE,
                           !.totalEarningsUsd = @ + StagedFor(staged, u),
                           !.pendingBalanceUsd = @ + StagedFor(staged, u)]
        ELSE st[u]]

(***************************************************************************)
(* POST /bundle/sales                                                      *)
(***************************************************************************)
\* The dedup check finding nothing, whatever is stored.
SaleExistsNever(k) == FALSE

\* saleSnap.exists (line 919).
SaleExists(k) == bundleSales[k].exists

\* The Sale document written with another status.
SaleDocUnpaid(s) ==
    [exists |-> TRUE, status |-> "pending", amountUsd |-> s.amountUsd,
     referrerId |-> s.referrer.id, holdUntil |-> s.holdUntil]

\* The document of saleRef.set (lines 931-941); referrerId: referrer?.id || null.
SaleDoc(s) ==
    [exists |-> TRUE, status |-> "paid", amountUsd |-> s.amountUsd,
     referrerId |-> s.referrer.id, holdUntil |-> s.holdUntil]

\* The request arrives and `await saleRef.get()` resolves (lines 915-927).
SaleReceive(r, k, code, amountPen) ==
    /\ sale[r].pc = "idle"
    /\ \A q \in SaleIds : q < r => sale[q].pc # "idle"
    \* keys are opaque: a key is first used after all smaller ones
    /\ \A j \in Keys : j < k => \E q \in SaleIds : sale[q].pc # "idle" /\ sale[q].key = j
    /\ IF SaleExists(k)
       THEN sale' = [sale EXCEPT ![r] = [IdleSale EXCEPT !.pc = "done", !.key = k,
                                                         !.result = "exists"]]
       ELSE IF code # NoCode /\ isValidReferralCode(code)
       THEN sale' = [sale EXCEPT ![r] = [IdleSale EXCEPT !.pc = "find", !.key = k,
                                            !.code = code,
                                            !.amountUsd = amountUsdOf[amountPen]]]
       ELSE sale' = [sale EXCEPT ![r] = [IdleSale EXCEPT !.pc = "set", !.key = k,
                                            !.code = code,
                                            !.amountUsd = amountUsdOf[amountPen],
                                            !.holdUntil = holdUntilDate(now)]]
    /\ UNCHANGED <<users, stats, bundleSales, commissions, activity>> /\ SaleFrame

\* `await findUserByReferral(referralCode.toUpperCase())` resolves; holdUntil is
\* computed right after it (lines 926-929).
SaleFind(r) ==
    /\ sale[r].pc = "find"
    /\ \E ref \in findUserByReferral(toUpperCase(sale[r].code)) :
          sale' = [sale EXCEPT ![r].referrer = ref,
                               ![r].holdUntil = holdUntilDate(now),
                               ![r].pc = "set"]
    /\ UNCHANGED <<users, stats, bundleSales, commissions, activity>> /\ SaleFrame

\* `await saleRef.set({...})` resolves; without a referrer the handler answers
\* "no-referrer"; otherwise the upline loop starts with the referrer at level 1
\* (lines 931-951).
SaleSet(r) ==
    LET s == sale[r] IN
    /\ s.pc = "set"
    /\ bundleSales' = [bundleSales EXCEPT ![s.key] = SaleDoc(s)]
    /\ IF s.referrer.id = Null
       THEN sale' = [sale EXCEPT ![r] = [IdleSale EXCEPT !.pc = "done", !.key = s.key,
                                                         !.result = "no-referrer"]]
       ELSE sale' = [sale EXCEPT
                ![r].chain = <<ChainEntry(1, s.referrer)>>,
                ![r].cur = s.referrer,
                ![r].pc = IF NoReferrer(s.referrer) THEN "commit" ELSE "walk"]
    /\ UNCHANGED <<users, stats, commissions, activity>> /\ SaleFrame

\* The read of the referrer's document never finding it missing.
nextSnapAlways(next) == TRUE

\* nextSnap.exists (line 953).
nextSnapExists(next) == users[next].exists

\* `await db.collection("users").doc(currentRef.referredBy).get()` resolves
\* (lines 949-955): a missing document breaks the loop, a found one becomes
\* currentRef and is pushed while level <= 4.
SaleWalk(r) ==
    LET s == sale[r]
        next == s.cur.referredBy
        level == Len(s.chain) + 1
    IN
    /\ s.pc = "walk"
    /\ IF ~nextSnapExists(next)
       THEN sale' = [sale EXCEPT ![r].pc = "commit"]
       ELSE IF level > MaxChainLevel
       THEN sale' = [sale EXCEPT ![r].cur = RefOf(next), ![r].pc = "commit"]
       ELSE sale' = [sale EXCEPT
                ![r].cur = RefOf(next),
                ![r].chain = Append(s.chain, ChainEntry(level, RefOf(next))),
                ![r].pc = IF NoReferrer(RefOf(next)) THEN "commit" ELSE "walk"]
    /\ UNCHANGED <<users, stats, bundleSales, commissions, activity>> /\ SaleFrame

\* `await batch.commit()` resolves (lines 957-1007): the commission documents,
\* the stats increments and the referrer's activity note, in one atomic write.
SaleCommit(r) ==
    LET s == sale[r]
        staged == StagedCommissions(s.chain, s.key, s.amountUsd, s.holdUntil, now)
    IN
    /\ s.pc = "commit"
    /\ commissions' = commissions \o staged
    /\ stats' = CreditStats(stats, staged)
    /\ activity' = [activity EXCEPT ![s.referrer.id] = @ + 1]
    /\ sale' = [sale EXCEPT ![r] = [IdleSale EXCEPT !.pc = "done", !.key = s.key,
                                                    !.result = "recorded"]]
    /\ UNCHANGED <<users, bundleSales>> /\ SaleFrame

\* An awaited store call rejects (store failure, timeout): the handler throws
\* and the request ends without an answer; nothing is written by the failed call.
SaleFail(r) ==
    /\ sale[r].pc \in {"find", "set", "walk", "commit"}
    /\ sale' = [sale EXCEPT ![r] = [IdleSale EXCEPT !.pc = "failed", !.key = sale[r].key,
                                                    !.result = "failed"]]
    /\ UNCHANGED <<users, stats, bundleSales, commissions, activity>> /\ SaleFrame

(***************************************************************************)
(* POST /bundle/sales from the request as sent: the key check and the      *)
(* schema run before the first await, in the step that reads the Sale.     *)
(* A body field is a record: present or not, and its value.                *)
(***************************************************************************)
Absent == [present |-> FALSE, value |-> << >>]
Str(v) == [present |-> TRUE, value |-> v]
AbsentNumber == [present |-> FALSE, isNumber |-> FALSE, value |-> 0]
Num(v) == [present |-> TRUE, isNumber |-> TRUE, value |-> v]
NotNum(v) == [present |-> TRUE, isNumber |-> FALSE, value |-> v]
NoHeader == [present |-> FALSE, value |-> ""]
Header(v) == [present |-> TRUE, value |-> v]

\* The externalId that names key k.
KeyString(k) == <<"o", "r", "d", CodeAlphabet[k]>>

\* z.string().min(3)
MinStringLen == 3

\* z.string().email(), reduced to the shape local@label.tld: one "@" with a
\* non-empty local part before it, and after it a last "." that has a label
\* before it and at least two characters after it.
isEmail(e) ==
    \E a \in 2..Len(e) :
        /\ e[a] = "@"
        /\ \A i \in 1..Len(e) : e[i] = "@" => i = a
        /\ \E d \in (a + 2)..(Len(e) - 2) :
              /\ e[d] = "."
              /\ \A i \in (d + 1)..Len(e) : e[i] # "."

\* The checks of lines 892-899 letting every request through.
keyCheckOpen(header) == "ok"

\* Lines 892-899: no configured key answers 500; a header that is not the
\* configured key (a missing one is undefined) answers 401.
keyCheck(header) ==
    IF SALES_API_KEY = "" THEN "not-configured"
    ELSE IF ~header.present \/ header.value # SALES_API_KEY THEN "unauthorized"
    ELSE "ok"

\* A schema that accepts every body.
schemaOkAny(body) == TRUE

\* schema.success (lines 901-913).
schemaOk(body) ==
    /\ body.externalId.present => Len(body.externalId.value) >= MinStringLen
    /\ body.buyerEmail.present /\ isEmail(body.buyerEmail.value)
    /\ body.amountPen.present /\ body.amountPen.isNumber /\ body.amountPen.value > 0
    /\ body.referralCode.present => Len(body.referralCode.value) >= MinStringLen

\* The store's automatic ids are new: not stored, not held by a request and
\* not the externalId of any request sent.
AutoIds ==
    {k \in Keys : /\ ~bundleSales[k].exists
                  /\ \A q \in SaleIds : sale[q].key # k
                  /\ \A q \in SaleIds : inbox[q].body.externalId # Str(KeyString(k))}

\* saleId = externalId || db.collection("bundleSales").doc().id (line 916).
saleIdOf(body) ==
    IF body.externalId.present
    THEN {k \in Keys : KeyString(k) = body.externalId.value}
    ELSE AutoIds

\* The handler answers with an error before any store call.
SaleReject(r, answer) ==
    /\ sale' = [sale EXCEPT ![r] = [IdleSale EXCEPT !.pc = "done", !.result = answer]]
    /\ UNCHANGED <<users, stats, bundleSales, commissions, activity>> /\ SaleFrame

\* POST /bundle/sales from its first line to the first await (lines 891-918):
\* the key checks, the schema, then the read of the Sale.
SalePost(r) ==
    LET req == inbox[r]
        body == req.body
    IN
    /\ sale[r].pc = "idle"
    /\ \A q \in SaleIds : q < r => sale[q].pc # "idle"
    /\ IF keyCheck(req.header) # "ok"
       THEN SaleReject(r, keyCheck(req.header))
       ELSE IF ~schemaOk(body)
       THEN SaleReject(r, "invalid")
       ELSE \E k \in saleIdOf(body) :
               SaleReceive(r, k, body.referralCode.value, body.amountPen.value)

(***************************************************************************)
(* refreshPendingCommissions(uid)                                          *)
(***************************************************************************)
\* PendingDue with the deadline compared strictly.
PendingDueStrict(uid, t) ==
    {i \in 1..Len(commissions) :
        /\ commissions[i].beneficiaryId = uid
        /\ commissions[i].status = "pending"
        /\ commissions[i].holdUntil < t}

\* PendingDue without the filter on the beneficiary.
PendingDueOfAnyone(uid, t) ==
    {i \in 1..Len(commissions) :
        /\ commissions[i].status = "pending"
        /\ commissions[i].holdUntil <= t}

\* The query of lines 358-363, against the store at time t.
PendingDue(uid, t) ==
    {i \in 1..Len(commissions) :
        /\ commissions[i].beneficiaryId = uid
        /\ commissions[i].status = "pending"
        /\ commissions[i].holdUntil <= t}

RECURSIVE SumAmounts(_)
SumAmounts(ids) ==
    IF ids = {} THEN 0
    ELSE LET i == CHOOSE j \in ids : TRUE
         IN commissions[i].amountUsd + SumAmounts(ids \ {i})

\* The query resolves; an empty snapshot returns at once (lines 358-377).
RefreshStart(q, uid) ==
    /\ settle[q].pc = "idle"
    /\ \A p \in SettleIds : p < q => settle[p].pc # "idle"
    /\ LET snap == PendingDue(uid, now) IN
       settle' = [settle EXCEPT ![q] =
           IF snap = {}
           THEN [IdleSettle EXCEPT !.pc = "done", !.uid = uid]
           ELSE [pc |-> "commit", uid |-> uid, snap |-> snap,
                 releasedTotal |-> SumAmounts(snap)]]

\* refreshPendingCommissions invoked on its own.
RefreshQuery(q, uid) ==
    /\ RefreshStart(q, uid)
    /\ UNCHANGED <<users, stats, bundleSales, commissions, activity>> /\ SettleFrame

\* The two increments merged into the stats document of every participant.
ReleaseStatsOfAll(st, uid, releasedTotal) ==
    [u \in Users |-> [st[u] EXCEPT !.exists = TRUE,
                                   !.pendingBalanceUsd = @ - releasedTotal,
                                   !.availableBalanceUsd = @ + releasedTotal]]

\* batch.set(statsRef, {...increments}, { merge: true }) on stats/{uid} (lines
\* 379-388).
ReleaseStats(st, uid, releasedTotal) ==
    [st EXCEPT ![uid] = [@ EXCEPT !.exists = TRUE,
                                  !.pendingBalanceUsd = @ - releasedTotal,
                                  !.availableBalanceUsd = @ + releasedTotal]]

\* batch.commit() of lines 368-390: every document of the snapshot is updated
\* to approved and the stats document is merged with the two increments.
RefreshCommit(q) ==
    LET s == settle[q] IN
    /\ s.pc = "commit"
    /\ commissions' = [i \in 1..Len(commissions) |->
                          IF i \in s.snap
                          THEN [commissions[i] EXCEPT !.status = "approved"]
                          ELSE commissions[i]]
    /\ stats' = ReleaseStats(stats, s.uid, s.releasedTotal)
    /\ settle' = [settle EXCEPT ![q] = [IdleSettle EXCEPT !.pc = "done", !.uid = s.uid]]
    /\ UNCHANGED <<users, bundleSales, activity>> /\ SettleFrame

(***************************************************************************)
(* POST /users/bootstrap                                                   *)
(***************************************************************************)
\* generateReferralCode(): six random letters of the alphabet; any code of the
\* pool may be drawn, one already held included.
CodePool == {CodeOf(i) : i \in Users}

\* `await userRef.get()` resolves (lines 427-441): an existing document skips
\* the creation; otherwise a code is drawn and the referrer code, when given,
\* is looked up next.
BootReceive(b, uid, referrerCode, newCode) ==
    /\ boot[b].pc = "idle"
    /\ \A c \in BootIds : c < b => boot[c].pc # "idle"
    /\ boot' = [boot EXCEPT ![b] =
          IF users[uid].exists
          THEN [IdleBoot EXCEPT !.pc = "fresh", !.uid = uid]
          ELSE [IdleBoot EXCEPT !.pc = IF referrerCode # NoCode THEN "findref" ELSE "setuser",
                                !.uid = uid,
                                !.referrerCode = referrerCode,
                                !.referralCode = newCode]]
    /\ UNCHANGED <<users, stats, activity, network>> /\ BootFrame

\* `await findUserByReferral(referrerCode)` resolves (lines 436-441).
BootFindRef(b) ==
    /\ boot[b].pc = "findref"
    /\ \E ref \in findUserByReferral(boot[b].referrerCode) :
          boot' = [boot EXCEPT ![b].referredBy = ref.id, ![b].pc = "setuser"]
    /\ UNCHANGED <<users, stats, activity, network>> /\ BootFrame

\* `await userRef.set(userData)` resolves (lines 443-456): the whole document
\* is written.
BootSetUser(b) ==
    LET s == boot[b] IN
    /\ s.pc = "setuser"
    /\ users' = [users EXCEPT ![s.uid] =
          [exists |-> TRUE, plan |-> "basic", status |-> NoStatus,
           referralCode |-> s.referralCode, referredBy |-> s.referredBy]]
    /\ boot' = [boot EXCEPT ![b].pc = IF s.referredBy # Null THEN "network" ELSE "fresh"]
    /\ UNCHANGED <<stats, activity, network>> /\ BootFrame

\* The referrer's network document for the newcomer is written (lines 457-464).
BootNetwork(b) ==
    /\ boot[b].pc = "network"
    /\ network' = network \cup {<<boot[b].referredBy, boot[b].uid>>}
    /\ boot' = [boot EXCEPT ![b].pc = "activity"]
    /\ UNCHANGED <<users, stats, activity>> /\ BootFrame

\* The referrer's activity note is added (lines 466-472).
BootActivity(b) ==
    /\ boot[b].pc = "activity"
    /\ activity' = [activity EXCEPT ![boot[b].referredBy] = @ + 1]
    /\ boot' = [boot EXCEPT ![b].pc = "fresh"]
    /\ UNCHANGED <<users, stats, network>> /\ BootFrame

\* `await userRef.get()` resolves again (lines 476-478): userData?.plan || "basic".
BootFresh(b) ==
    /\ boot[b].pc = "fresh"
    /\ boot' = [boot EXCEPT ![b].plan = IF users[boot[b].uid].exists
                                        THEN PlanOrBasic(users[boot[b].uid].plan)
                                        ELSE "basic",
                            ![b].pc = "statsget"]
    /\ UNCHANGED <<users, stats, activity, network>> /\ BootFrame

\* ensureStats: `await statsRef.get()` resolves (lines 243-245).
BootStatsGet(b) ==
    /\ boot[b].pc = "statsget"
    /\ boot' = [boot EXCEPT ![b] =
          IF stats[boot[b].uid].exists
          THEN [IdleBoot EXCEPT !.pc = "done", !.uid = boot[b].uid]
          ELSE [boot[b] EXCEPT !.pc = "statsset"]]
    /\ UNCHANGED <<users, stats, activity, network>> /\ BootFrame

\* ensureStats: `await statsRef.set({...})` resolves (lines 246-253): the whole
\* document is written with zero balances.
BootStatsSet(b) ==
    /\ boot[b].pc = "statsset"
    /\ stats' = [stats EXCEPT ![boot[b].uid] = FreshStats(boot[b].plan)]
    /\ boot' = [boot EXCEPT ![b] = [IdleBoot EXCEPT !.pc = "done", !.uid = boot[b].uid]]
    /\ UNCHANGED <<users, activity, network>> /\ BootFrame

(***************************************************************************)
(* POST /subscription/upgrade, PATCH /admin/users/:uid and the webhooks of  *)
(* the payment providers                                                   *)
(***************************************************************************)
\* db.collection("users").doc(uid).set(updates, { merge: true }) with a plan
\* or none (NoPlan) and a status or none (NoStatus): the document is created
\* when missing, with the written fields only.
MergeUser(doc, plan, status) ==
    IF doc.exists
    THEN [doc EXCEPT !.plan = IF plan = NoPlan THEN @ ELSE plan,
                     !.status = IF status = NoStatus THEN @ ELSE status]
    ELSE [exists |-> TRUE, plan |-> plan, status |-> status, referralCode |-> NoCode,
          referredBy |-> Undefined]

\* The merge of the upgrade and of the admin patch: a plan or none, no status.
MergeUserPlan(doc, plan) == MergeUser(doc, plan, NoStatus)

\* db.collection("stats").doc(uid).set({ plan }, { merge: true })
MergeStatsPlan(doc, plan) == [doc EXCEPT !.exists = TRUE, !.plan = plan]

\* The upgrade handler's first write resolves (lines 612-621).
UpgradeUser(p, uid, plan) ==
    /\ planreq[p].pc = "idle"
    /\ \A c \in PlanIds : c < p => planreq[c].pc # "idle"
    /\ users' = [users EXCEPT ![uid] = MergeUserPlan(@, plan)]
    /\ planreq' = [planreq EXCEPT ![p] = [pc |-> "stats", kind |-> "upgrade",
                                          event |-> "none", uid |-> uid, plan |-> plan]]
    /\ UNCHANGED stats /\ PlanFrame

\* The admin patch's write to users resolves (lines 1064-1080); plan is
\* optional, and without one the handler answers after this write.
PatchUser(p, uid, plan) ==
    /\ planreq[p].pc = "idle"
    /\ \A c \in PlanIds : c < p => planreq[c].pc # "idle"
    /\ users' = [users EXCEPT ![uid] = MergeUserPlan(@, plan)]
    /\ planreq' = [planreq EXCEPT ![p] = [pc |-> IF plan = NoPlan THEN "done" ELSE "stats",
                                          kind |-> "patch", event |-> "none",
                                          uid |-> uid, plan |-> plan]]
    /\ UNCHANGED stats /\ PlanFrame

\* The event types of the PayPal webhook: the two that may activate, the four
\* that suspend, and any other.
ActivatedEvent == "BILLING.SUBSCRIPTION.ACTIVATED"
UpdatedEvent == "BILLING.SUBSCRIPTION.UPDATED"
SuspendingEvents == {"BILLING.SUBSCRIPTION.CANCELLED", "BILLING.SUBSCRIPTION.SUSPENDED",
                     "BILLING.SUBSCRIPTION.EXPIRED", "BILLING.SUBSCRIPTION.PAYMENT.FAILED"}
OtherEvent == "PAYMENT.SALE.COMPLETED"
PaypalEvents == {ActivatedEvent, UpdatedEvent, OtherEvent} \cup SuspendingEvents

\* type is ACTIVATED, or UPDATED with resource.status "ACTIVE" (lines 735, 751-752).
Activates(type, resourceActive) ==
    type = ActivatedEvent \/ (type = UpdatedEvent /\ resourceActive)

\* updates.status (lines 735-757).
paypalStatus(type, resourceActive) ==
    IF Activates(type, resourceActive) THEN "ACTIVE"
    ELSE IF type \in SuspendingEvents THEN "SUSPENDED"
    ELSE NoStatus

\* updates.plan with the plan written on every event.
paypalPlanOnEveryEvent(type, resourceActive, finalPlan) == finalPlan

\* updates.plan (lines 735-757): set on an activation only.
paypalPlan(type, resourceActive, finalPlan) ==
    IF Activates(type, resourceActive) THEN finalPlan ELSE NoPlan

\* POST /paypal/webhook of a verified event that names the participant in
\* resource.custom_id: `await userRef.set(updates, { merge: true })` resolves
\* (lines 692-759); without updates.plan the handler answers after this write.
PaypalUser(p, uid, type, resourceActive, finalPlan) ==
    LET plan == paypalPlan(type, resourceActive, finalPlan) IN
    /\ planreq[p].pc = "idle"
    /\ \A c \in PlanIds : c < p => planreq[c].pc # "idle"
    /\ users' = [users EXCEPT ![uid] = MergeUser(@, plan, paypalStatus(type, resourceActive))]
    /\ planreq' = [planreq EXCEPT ![p] = [pc |-> IF plan = NoPlan THEN "done" ELSE "stats",
                                          kind |-> "paypal", event |-> type,
                                          uid |-> uid, plan |-> plan]]
    /\ UNCHANGED stats /\ PlanFrame

\* POST /culqi/webhook of the event "order.status.changed" with state "paid"
\* for a stored order of participant uid and plan: the first write of
\* updateUserPlan resolves (lines 866-880, 277-286).  The two calls on the
\* order's own document before it touch nothing else.
CulqiUser(p, uid, plan) ==
    /\ planreq[p].pc = "idle"
    /\ \A c \in PlanIds : c < p => planreq[c].pc # "idle"
    /\ users' = [users EXCEPT ![uid] = MergeUser(@, plan, "ACTIVE")]
    /\ planreq' = [planreq EXCEPT ![p] = [pc |-> "stats", kind |-> "culqi",
                                          event |-> "order.status.changed",
                                          uid |-> uid, plan |-> plan]]
    /\ UNCHANGED stats /\ PlanFrame

\* The write of the plan to stats resolves (lines 623-631, 1082-1092, 760-768,
\* 287-295).
PlanStats(p) ==
    /\ planreq[p].pc = "stats"
    /\ stats' = [stats EXCEPT ![planreq[p].uid] = MergeStatsPlan(@, planreq[p].plan)]
    /\ planreq' = [planreq EXCEPT ![p].pc = "done"]
    /\ UNCHANGED users /\ PlanFrame

(***************************************************************************)
(* DELETE /admin/users/:uid                                                *)
(***************************************************************************)
\* `await db.collection("users").doc(uid).delete()` resolves (line 1106).
DeleteUser(d, uid) ==
    /\ admin[d].pc = "idle"
    /\ \A c \in AdminIds : c < d => admin[c].pc # "idle"
    /\ users' = [users EXCEPT ![uid] = NoUserDoc]
    /\ admin' = [admin EXCEPT ![d] = [IdleAdmin EXCEPT !.pc = "stats", !.uid = uid]]
    /\ UNCHANGED <<stats, network>> /\ AdminFrame

\* `await db.collection("stats").doc(uid).delete()` resolves (line 1107).
DeleteStats(d) ==
    /\ admin[d].pc = "stats"
    /\ stats' = [stats EXCEPT ![admin[d].uid] = NoStatsDoc]
    /\ admin' = [admin EXCEPT ![d].pc = "network"]
    /\ UNCHANGED <<users, network>> /\ AdminFrame

\* The network subcollection is read (lines 1109-1110); an empty one ends the
\* handler.
DeleteNetworkGet(d) ==
    /\ admin[d].pc = "network"
    /\ LET snap == {e \in network : e[1] = admin[d].uid} IN
       admin' = [admin EXCEPT ![d] =
           IF snap = {} THEN [IdleAdmin EXCEPT !.pc = "done", !.uid = admin[d].uid]
           ELSE [admin[d] EXCEPT !.pc = "commit", !.snap = snap]]
    /\ UNCHANGED <<users, stats, network>> /\ AdminFrame

\* The batch of deletes commits (lines 1111-1113).
DeleteNetworkCommit(d) ==
    /\ admin[d].pc = "commit"
    /\ network' = network \ admin[d].snap
    /\ admin' = [admin EXCEPT ![d] = [IdleAdmin EXCEPT !.pc = "done", !.uid = admin[d].uid]]
    /\ UNCHANGED <<users, stats>> /\ AdminFrame

(***************************************************************************)
(* GET /dashboard and GET /network                                         *)
(***************************************************************************)
\* Not waiting for the refresh.
SettledOrNot(v) == TRUE

\* `await refreshPendingCommissions(uid)` (line 494) has returned.
Settled(v) == settle[view[v].settle].pc = "done"

\* GET /dashboard arrives and the query of refreshPendingCommissions resolves
\* (lines 492-494, 358-366).
DashReceive(v, q, uid) ==
    /\ view[v].pc = "idle"
    /\ \A w \in ViewIds : w < v => view[w].pc # "idle"
    /\ RefreshStart(q, uid)
    /\ view' = [view EXCEPT ![v] =
          [IdleView EXCEPT !.pc = "settling", !.kind = "dashboard", !.uid = uid,
                           !.settle = q, !.dueAtArrival = PendingDue(uid, now),
                           !.toRead = {"user", "stats", "activity"}]]
    /\ UNCHANGED <<stats, commissions, activity>> /\ ViewFrame

\* One of the three reads of Promise.all resolves (lines 495-499); they are
\* issued together once the refresh has returned and resolve in any order.
DashRead(v, what) ==
    LET s == view[v] IN
    /\ s.pc \in {"settling", "reading"}
    /\ Settled(v)
    /\ what \in s.toRead
    /\ view' = [view EXCEPT ![v] =
          [s EXCEPT !.toRead = @ \ {what},
                    !.planId = IF what = "user"
                               THEN (IF users[s.uid].exists THEN PlanOrBasic(users[s.uid].plan)
                                     ELSE "basic")
                               ELSE @,
                    !.seenTotal = IF what = "stats" THEN stats[s.uid].totalEarningsUsd ELSE @,
                    !.seenAvailable = IF what = "stats" THEN stats[s.uid].availableBalanceUsd
                                      ELSE @,
                    !.pc = IF s.toRead = {what} THEN "downline" ELSE "reading",
                    !.maxLevels = IF s.toRead = {what} THEN DownlineLevels ELSE @,
                    !.level = IF s.toRead = {what} THEN 1 ELSE @,
                    !.ids = IF s.toRead = {what} THEN <<s.uid>> ELSE @]]
    /\ UNCHANGED <<stats, commissions, activity, settle>> /\ ViewFrame

\* GET /network arrives and `await db.collection("users").doc(uid).get()`
\* resolves (lines 561-564): userSnap.data()?.plan || "basic".
NetReceive(v, uid) ==
    /\ view[v].pc = "idle"
    /\ \A w \in ViewIds : w < v => view[w].pc # "idle"
    /\ view' = [view EXCEPT ![v] =
          [IdleView EXCEPT !.pc = "downline", !.kind = "network", !.uid = uid,
                           !.dueAtArrival = PendingDue(uid, now),
                           !.planId = IF users[uid].exists THEN PlanOrBasic(users[uid].plan)
                                      ELSE "basic",
                           !.maxLevels = DownlineLevels, !.level = 1, !.ids = <<uid>>]]
    /\ UNCHANGED <<stats, commissions, activity, settle>> /\ ViewFrame

\* The elements of a set of ids in ascending order: the order in which a query
\* without orderBy returns its documents.
RECURSIVE InIdOrder(_)
InIdOrder(S) ==
    IF S = {} THEN << >>
    ELSE LET m == CHOOSE x \in S : \A y \in S : x <= y
         IN <<m>> \o InIdOrder(S \ {m})

\* A lookup that also returns the participants asked about.
fetchUsersByReferrersAndSelf(referrerIds) ==
    InIdOrder({u \in Users :
        users[u].exists /\ (users[u].referredBy \in {referrerIds[i] : i \in 1..Len(referrerIds)}
                             \/ u \in {referrerIds[i] : i \in 1..Len(referrerIds)})})

\* fetchUsersByReferrers: where("referredBy", "in", chunk) per chunk of 10 ids;
\* the participants are fewer than 10, so one query answers a level.
fetchUsersByReferrers(referrerIds) ==
    InIdOrder({u \in Users :
        users[u].exists /\ users[u].referredBy \in {referrerIds[i] : i \in 1..Len(referrerIds)}})

\* The loop going on after an empty level.
loopEndsAtLastLevel(level, maxLevels, levelUsers) == level + 1 > maxLevels

\* The loop condition fails after this level: while (currentLevel <= maxLevels
\* && currentIds.length), with currentLevel + 1 and the level's ids (line 320).
loopEnds(level, maxLevels, levelUsers) == level + 1 > maxLevels \/ levelUsers = << >>

\* buildDownline(rootUid, maxLevels) called on its own: members and counts are
\* empty, currentLevel is 1 and currentIds is [rootUid] (lines 315-320).
DownlineStart(v, rootUid, maxLevels) ==
    /\ view[v].pc = "idle"
    /\ \A w \in ViewIds : w < v => view[w].pc # "idle"
    /\ view' = [view EXCEPT ![v] =
          [IdleView EXCEPT !.pc = IF maxLevels >= 1 THEN "downline" ELSE "done",
                           !.kind = "downline", !.uid = rootUid,
                           !.maxLevels = maxLevels, !.level = 1, !.ids = <<rootUid>>]]
    /\ UNCHANGED <<stats, commissions, activity, settle>> /\ ViewFrame

\* buildDownline: `await fetchUsersByReferrers(currentIds)` resolves for one
\* level (lines 320-336): the level's count and members are recorded and the
\* level's ids become currentIds; the loop ends after maxLevels levels or on an
\* empty level.  The dashboard answers after it, the network view goes on to
\* getUpline.
ViewDownline(v) ==
    LET s == view[v]
        levelUsers == fetchUsersByReferrers(s.ids)
        ends == loopEnds(s.level, s.maxLevels, levelUsers)
    IN
    /\ s.pc = "downline"
    /\ view' = [view EXCEPT ![v] =
          [s EXCEPT !.counts = Append(@, Len(levelUsers)),
                    !.members = @ \o [i \in 1..Len(levelUsers) |->
                                        [id |-> levelUsers[i], level |-> s.level]],
                    !.ids = IF ends THEN << >> ELSE levelUsers,
                    !.level = IF ends THEN 0 ELSE @ + 1,
                    !.pc = IF ~ends THEN "downline"
                           ELSE IF s.kind = "network" THEN "upline" ELSE "done"]]
    /\ UNCHANGED <<stats, commissions, activity, settle>> /\ ViewFrame

\* getUpline: `await db.collection("users").doc(uid).get()` resolves (lines
\* 342-345).
NetUplineUser(v) ==
    LET s == view[v] IN
    /\ s.pc = "upline"
    /\ view' = [view EXCEPT ![v] =
          IF ~users[s.uid].exists \/ NoReferrer(users[s.uid])
          THEN [s EXCEPT !.pc = "done"]
          ELSE [s EXCEPT !.pc = "uplineref", !.upline = users[s.uid].referredBy]]
    /\ UNCHANGED <<stats, commissions, activity, settle>> /\ ViewFrame

\* getUpline: `await db.collection("users").doc(user.referredBy).get()` resolves
\* (lines 346-354).
NetUplineRef(v) ==
    LET s == view[v] IN
    /\ s.pc = "uplineref"
    /\ view' = [view EXCEPT ![v] =
          [s EXCEPT !.pc = "done",
                    !.upline = IF users[s.upline].exists THEN @ ELSE Null]]
    /\ UNCHANGED <<stats, commissions, activity, settle>> /\ ViewFrame

\* Time passes.
Tick(t) ==
    /\ t > now
    /\ now' = t
    /\ UNCHANGED <<users, stats, bundleSales, commissions, activity, network,
                   sale, settle, boot, planreq, admin, view>>
    /\ Given

(***************************************************************************)
(* The ledger: a referral chain 1 <- 2 <- ... <- NUsers of bootstrapped    *)
(* participants of any tiers, sales and settlements running concurrently.  *)
(***************************************************************************)
ChainUser(u, plan) ==
    [exists |-> TRUE, plan |-> plan, status |-> NoStatus, referralCode |-> CodeOf(u),
     referredBy |-> IF u = 1 THEN Null ELSE u - 1]

\* A request of the sales integration: the right key and a body the schema
\* accepts.
ConfiguredKey == "sales-key"
GoodEmail == <<"a", "@", "b", ".", "p", "e">>
GoodBody(k, code) ==
    [externalId |-> Str(KeyString(k)), buyerEmail |-> Str(GoodEmail),
     amountPen |-> Num(37037), referralCode |-> code]
GoodRequest(k, code) == [header |-> Header(ConfiguredKey), body |-> GoodBody(k, code)]

InitSlots ==
    /\ sale = [r \in SaleIds |-> IdleSale]
    /\ settle = [q \in SettleIds |-> IdleSettle]
    /\ boot = [b \in BootIds |-> IdleBoot]
    /\ planreq = [p \in PlanIds |-> IdlePlan]
    /\ admin = [d \in AdminIds |-> IdleAdmin]
    /\ view = [v \in ViewIds |-> IdleView]

\* The specifications that start sale intake after the key check and the
\* schema leave the requests as sent out of the picture.
InitRequests ==
    /\ InitSlots
    /\ inbox = [r \in SaleIds |-> GoodRequest(1, Absent)]
    /\ SALES_API_KEY = ConfiguredKey

InitEmptyLedger ==
    /\ bundleSales = [k \in Keys |-> NoSaleDoc]
    /\ commissions = << >>
    /\ activity = [u \in Users |-> 0]
    /\ now = 0

\* Scenario A's tiers along the chain: 1 is Elite, 2 is Pro, the others Basic.
ScenarioTier(u) == IF u = 1 THEN "elite" ELSE IF u = 2 THEN "pro" ELSE "basic"

\* The level-1 edges the bootstraps of the chain wrote.
ChainNetwork(us) == {<<u - 1, u>> : u \in us \ {1}}

InitLedger ==
    /\ users = [u \in Users |-> ChainUser(u, ScenarioTier(u))]
    /\ stats = [u \in Users |-> FreshStats(ScenarioTier(u))]
    /\ network = ChainNetwork(Users)
    /\ InitEmptyLedger
    /\ InitRequests

LedgerCodes == {CodeOf(NUsers), NoCode}
LedgerAmounts == {37037}

NextLedger ==
    \/ \E r \in SaleIds, k \in Keys, code \in LedgerCodes, a \in LedgerAmounts :
          SaleReceive(r, k, code, a)
    \/ \E r \in SaleIds : SaleFind(r)
    \/ \E r \in SaleIds : SaleSet(r)
    \/ \E r \in SaleIds : SaleWalk(r)
    \/ \E r \in SaleIds : SaleCommit(r)
    \/ \E r \in SaleIds : SaleFail(r)
    \/ \E q \in SettleIds, u \in Users : RefreshQuery(q, u)
    \/ \E q \in SettleIds : RefreshCommit(q)
    \/ \E t \in Instants : Tick(t)

SpecLedger == InitLedger /\ [][NextLedger]_vars

(***************************************************************************)
(* Distribution: the same chain under every tier assignment, sales of any  *)
(* code and amount, one call after the other.                              *)
(***************************************************************************)
InitTiers ==
    /\ \E tier \in [Users -> Plans] :
          /\ users = [u \in Users |-> ChainUser(u, tier[u])]
          /\ stats = [u \in Users |-> FreshStats(tier[u])]
    /\ network = ChainNetwork(Users)
    /\ InitEmptyLedger
    /\ InitRequests

TierCodes == {CodeOf(u) : u \in Users} \cup {NoCode, UnknownCode, LowerCodeOf(NUsers), BadCode}
\* centimos: 370.37 PEN (100.00 USD), 1.05 PEN (0.28 USD) and 1.07 PEN (0.29 USD)
TierAmounts == {37037, 105, 107}
NoSaleRunning == \A r \in SaleIds : sale[r].pc \in {"idle", "done", "failed"}

NextTiers ==
    \/ \E r \in SaleIds, k \in Keys, code \in TierCodes, a \in TierAmounts :
          NoSaleRunning /\ SaleReceive(r, k, code, a)
    \/ \E r \in SaleIds : SaleFind(r)
    \/ \E r \in SaleIds : SaleSet(r)
    \/ \E r \in SaleIds : SaleWalk(r)
    \/ \E r \in SaleIds : SaleCommit(r)

SpecTiers == InitTiers /\ [][NextTiers]_vars

(***************************************************************************)
(* The whole system: the chain 1 <- ... <- NUsers-1 is bootstrapped, the   *)
(* participant NUsers has not signed up yet; at most MaxOps requests of    *)
(* any kind are started, and they interleave at every await.               *)
(***************************************************************************)
Init ==
    /\ users = [u \in Users |-> IF u = NUsers THEN NoUserDoc
                                ELSE ChainUser(u, ScenarioTier(u))]
    /\ stats = [u \in Users |-> IF u = NUsers THEN NoStatsDoc
                                ELSE FreshStats(ScenarioTier(u))]
    /\ network = ChainNetwork(Users \ {NUsers})
    /\ InitEmptyLedger
    /\ InitRequests

Started ==
    Cardinality({r \in SaleIds : sale[r].pc # "idle"})
    + Cardinality({q \in SettleIds : settle[q].pc # "idle"})
    + Cardinality({b \in BootIds : boot[b].pc # "idle"})
    + Cardinality({p \in PlanIds : planreq[p].pc # "idle"})
    + Cardinality({d \in AdminIds : admin[d].pc # "idle"})
MayStart == Started < MaxOps
\* The whole system and the referral tree see one plan change per behaviour;
\* concurrent plan changes are the matter of SpecPlans.
NoPlanYet == \A p \in PlanIds : planreq[p].pc = "idle"

\* The requests of the whole system are about the newcomer and its referrer:
\* sales through their codes, and bootstraps, plan changes, deletions and
\* settlements of the two.
FocusUsers == {NUsers - 1, NUsers}
SystemCodes == {CodeOf(NUsers), CodeOf(NUsers - 1), NoCode}
SystemAmounts == {37037}
ReferrerCodes == {CodeOf(NUsers - 1), NoCode}
DrawnCodes == {c \in CodePool : \E u \in FocusUsers : c = CodeOf(u)}
PatchPlans == {NoPlan, "elite"}
SystemInstants == {REFUND_HOLD_DAYS}

Next ==
    \/ \E r \in SaleIds, k \in Keys, code \in SystemCodes, a \in SystemAmounts :
          MayStart /\ SaleReceive(r, k, code, a)
    \/ \E r \in SaleIds : SaleFind(r)
    \/ \E r \in SaleIds : SaleSet(r)
    \/ \E r \in SaleIds : SaleWalk(r)
    \/ \E r \in SaleIds : SaleCommit(r)
    \/ \E r \in SaleIds : SaleFail(r)
    \/ \E q \in SettleIds, u \in FocusUsers : MayStart /\ RefreshQuery(q, u)
    \/ \E q \in SettleIds : RefreshCommit(q)
    \/ \E b \in BootIds, u \in FocusUsers, rc \in ReferrerCodes, nc \in DrawnCodes :
          MayStart /\ BootReceive(b, u, rc, nc)
    \/ \E b \in BootIds : BootFindRef(b)
    \/ \E b \in BootIds : BootSetUser(b)
    \/ \E b \in BootIds : BootNetwork(b)
    \/ \E b \in BootIds : BootActivity(b)
    \/ \E b \in BootIds : BootFresh(b)
    \/ \E b \in BootIds : BootStatsGet(b)
    \/ \E b \in BootIds : BootStatsSet(b)
    \/ \E p \in PlanIds, u \in FocusUsers, plan \in Plans :
          MayStart /\ NoPlanYet /\ UpgradeUser(p, u, plan)
    \/ \E p \in PlanIds, u \in FocusUsers, plan \in PatchPlans :
          MayStart /\ NoPlanYet /\ PatchUser(p, u, plan)
    \/ \E p \in PlanIds : PlanStats(p)
    \/ \E d \in AdminIds, u \in FocusUsers : MayStart /\ DeleteUser(d, u)
    \/ \E d \in AdminIds : DeleteStats(d)
    \/ \E d \in AdminIds : DeleteNetworkGet(d)
    \/ \E d \in AdminIds : DeleteNetworkCommit(d)
    \/ \E t \in SystemInstants : Tick(t)

Spec == Init /\ [][Next]_vars

(***************************************************************************)
(* The views: on the chain of the ledger, one sale through the deepest     *)
(* participant's code, the clock, and dashboard and network requests of    *)
(* any participant running concurrently with it.                           *)
(***************************************************************************)
ViewSales == {1}
ViewInstants == {REFUND_HOLD_DAYS}

NextViews ==
    \/ \E r \in ViewSales, code \in {CodeOf(NUsers)}, a \in LedgerAmounts :
          SaleReceive(r, 1, code, a)
    \/ \E r \in SaleIds : SaleFind(r)
    \/ \E r \in SaleIds : SaleSet(r)
    \/ \E r \in SaleIds : SaleWalk(r)
    \/ \E r \in SaleIds : SaleCommit(r)
    \/ \E t \in ViewInstants : Tick(t)
    \/ \E v \in ViewIds, q \in SettleIds, u \in Users : DashReceive(v, q, u)
    \/ \E q \in SettleIds : RefreshCommit(q)
    \/ \E v \in ViewIds, what \in {"user", "stats", "activity"} : DashRead(v, what)
    \/ \E v \in ViewIds, u \in Users : NetReceive(v, u)
    \/ \E v \in ViewIds : ViewDownline(v)
    \/ \E v \in ViewIds : NetUplineUser(v)
    \/ \E v \in ViewIds : NetUplineRef(v)

SpecViews == InitLedger /\ [][NextViews]_vars

(***************************************************************************)
(* Sale intake from the requests as sent: on the chain of the ledger, the  *)
(* configured key or none, and requests of any header and body of the sets *)
(* below, handled concurrently.                                            *)
(***************************************************************************)
IntakeCodes ==
    {Str(CodeOf(NUsers)), Absent, Str(UnknownCode), Str(BadCode), Str(LowerCodeOf(NUsers)),
     Str(<<"A", "F">>)}
IntakeBodies ==
    {GoodBody(k, c) : k \in Keys, c \in IntakeCodes}
    \cup {[GoodBody(1, Str(CodeOf(NUsers))) EXCEPT !.externalId = x] :
             x \in {Absent, Str(<<"o", "r">>)}}
    \cup {[GoodBody(1, Str(CodeOf(NUsers))) EXCEPT !.buyerEmail = x] :
             x \in {Absent, Str(<<"a", "b">>)}}
    \cup {[GoodBody(1, Str(CodeOf(NUsers))) EXCEPT !.amountPen = x] :
             x \in {AbsentNumber, NotNum(37037), Num(0), Num(-100)}}
IntakeRequests ==
    {[header |-> Header(ConfiguredKey), body |-> b] : b \in IntakeBodies}
    \cup {[header |-> h, body |-> GoodBody(1, Str(CodeOf(NUsers)))] :
             h \in {NoHeader, Header("other-key"), Header("")}}

InitIntake ==
    /\ users = [u \in Users |-> ChainUser(u, ScenarioTier(u))]
    /\ stats = [u \in Users |-> FreshStats(ScenarioTier(u))]
    /\ network = ChainNetwork(Users)
    /\ InitEmptyLedger
    /\ InitSlots
    /\ inbox \in [SaleIds -> IntakeRequests]
    /\ SALES_API_KEY \in {"", ConfiguredKey}

NextIntake ==
    \/ \E r \in SaleIds : SalePost(r)
    \/ \E r \in SaleIds : SaleFind(r)
    \/ \E r \in SaleIds : SaleSet(r)
    \/ \E r \in SaleIds : SaleWalk(r)
    \/ \E r \in SaleIds : SaleCommit(r)

SpecIntake == InitIntake /\ [][NextIntake]_vars

(***************************************************************************)
(* The referral tree: bootstraps and deletions of the participants below   *)
(* the root, with any of their codes as referrer code, and plan changes of *)
(* the last two, running concurrently.  A bootstrap draws the code its     *)
(* participant holds in the chain.                                         *)
(***************************************************************************)
TreeUsers == Users \ {1}
TreeCodes == {CodeOf(u) : u \in TreeUsers} \cup {NoCode}

NextTree ==
    \/ \E b \in BootIds, u \in TreeUsers, rc \in TreeCodes : BootReceive(b, u, rc, CodeOf(u))
    \/ \E b \in BootIds : BootFindRef(b)
    \/ \E b \in BootIds : BootSetUser(b)
    \/ \E b \in BootIds : BootNetwork(b)
    \/ \E b \in BootIds : BootActivity(b)
    \/ \E b \in BootIds : BootFresh(b)
    \/ \E b \in BootIds : BootStatsGet(b)
    \/ \E b \in BootIds : BootStatsSet(b)
    \/ \E p \in PlanIds, u \in FocusUsers, plan \in PatchPlans :
          NoPlanYet /\ PatchUser(p, u, plan)
    \/ \E p \in PlanIds, u \in FocusUsers : NoPlanYet /\ UpgradeUser(p, u, "pro")
    \/ \E p \in PlanIds : PlanStats(p)
    \/ \E d \in AdminIds, u \in TreeUsers : DeleteUser(d, u)
    \/ \E d \in AdminIds : DeleteStats(d)
    \/ \E d \in AdminIds : DeleteNetworkGet(d)
    \/ \E d \in AdminIds : DeleteNetworkCommit(d)

SpecTree == Init /\ [][NextTree]_vars

(***************************************************************************)
(* buildDownline as a function of the stored relation: the participants    *)
(* exist or not, and each existing one is referred by nobody or by any     *)
(* participant (itself, a missing one and cycles included); one call with  *)
(* any root and any number of levels.                                      *)
(***************************************************************************)
InitRelation ==
    /\ \E ex \in [Users -> BOOLEAN], par \in [Users -> Users \cup {Null}] :
          /\ \A u \in Users : ~ex[u] => par[u] = Null
          /\ users = [u \in Users |->
                IF ex[u] THEN [ChainUser(u, ScenarioTier(u)) EXCEPT !.referredBy = par[u]]
                ELSE NoUserDoc]
          /\ stats = [u \in Users |-> IF ex[u] THEN FreshStats(ScenarioTier(u)) ELSE NoStatsDoc]
    /\ network = {}
    /\ InitEmptyLedger
    /\ InitRequests

NoViewYet == \A w \in ViewIds : view[w].pc = "idle"

NextDownline ==
    \/ \E v \in ViewIds, root \in Users, m \in 1..DownlineLevels :
          NoViewYet /\ DownlineStart(v, root, m)
    \/ \E v \in ViewIds : ViewDownline(v)

SpecDownline == InitRelation /\ [][NextDownline]_vars

(***************************************************************************)
(* Bootstraps alone: of the newcomer and of its referrer, with the code of *)
(* any participant or none, running concurrently.                          *)
(***************************************************************************)
BootCodes == {CodeOf(u) : u \in Users \ {NUsers}} \cup {NoCode}

NextBoot ==
    \/ \E b \in BootIds, u \in FocusUsers, rc \in BootCodes, nc \in DrawnCodes :
          BootReceive(b, u, rc, nc)
    \/ \E b \in BootIds : BootFindRef(b)
    \/ \E b \in BootIds : BootSetUser(b)
    \/ \E b \in BootIds : BootNetwork(b)
    \/ \E b \in BootIds : BootActivity(b)
    \/ \E b \in BootIds : BootFresh(b)
    \/ \E b \in BootIds : BootStatsGet(b)
    \/ \E b \in BootIds : BootStatsSet(b)

SpecBoot == Init /\ [][NextBoot]_vars

(***************************************************************************)
(* Plan changes: upgrades, admin patches and the webhooks of the two       *)
(* payment providers for the participants in the middle of the chain,      *)
(* running concurrently.                                                   *)
(***************************************************************************)
PlanUsers == {2, 3}

NextPlans ==
    \/ \E p \in PlanIds, u \in PlanUsers, plan \in Plans : UpgradeUser(p, u, plan)
    \/ \E p \in PlanIds, u \in PlanUsers, plan \in PatchPlans : PatchUser(p, u, plan)
    \/ \E p \in PlanIds, u \in PlanUsers, type \in PaypalEvents, resourceActive \in BOOLEAN,
          finalPlan \in Plans : PaypalUser(p, u, type, resourceActive, finalPlan)
    \/ \E p \in PlanIds, u \in PlanUsers, plan \in Plans : CulqiUser(p, u, plan)
    \/ \E p \in PlanIds : PlanStats(p)

SpecPlans == InitLedger /\ [][NextPlans]_vars

(***************************************************************************)
(* The upline walk on any stored relation: one sale through the code of    *)
(* any participant.                                                        *)
(***************************************************************************)
NoSaleYet == \A r \in SaleIds : sale[r].pc = "idle"

NextWalk ==
    \/ \E r \in SaleIds, k \in Keys, u \in Users, a \in LedgerAmounts :
          NoSaleYet /\ SaleReceive(r, k, CodeOf(u), a)
    \/ \E r \in SaleIds : SaleFind(r)
    \/ \E r \in SaleIds : SaleSet(r)
    \/ \E r \in SaleIds : SaleWalk(r)
    \/ \E r \in SaleIds : SaleCommit(r)

SpecWalk == InitRelation /\ [][NextWalk]_vars

\* A lookup that was issued is answered: the store answers every query.
SpecDownlineFair == SpecDownline /\ WF_vars(\E v \in ViewIds : ViewDownline(v))

(***************************************************************************)
(* Vocabulary of the claims.                                               *)
(***************************************************************************)
EntryIds == 1..Len(commissions)
EntriesOfSale(k) == {i \in EntryIds : commissions[i].transactionId = k}
EntriesOf(u) == {i \in EntryIds : commissions[i].beneficiaryId = u}
SaleInFlight(k) == \E r \in SaleIds : sale[r].key = k /\ sale[r].pc \notin {"idle", "done", "failed"}
Answered(k) == {r \in SaleIds : sale[r].key = k /\ sale[r].result \in {"recorded", "exists"}}
Recorded(k) == {r \in SaleIds : sale[r].key = k /\ sale[r].result = "recorded"}
Resolved(k) == bundleSales[k].exists /\ bundleSales[k].referrerId # Null

\* The credits of participant u counted once per (sale, level).
CreditsOnce(u) ==
    {<<commissions[i].transactionId, commissions[i].level, commissions[i].amountUsd>> :
        i \in EntriesOf(u)}
RECURSIVE SumCredits(_)
SumCredits(cs) ==
    IF cs = {} THEN 0
    ELSE LET c == CHOOSE x \in cs : TRUE IN c[3] + SumCredits(cs \ {c})

\* C1: requests carrying one idempotency key, in any interleaving, leave one
\* Sale record, one Commission Entry per credited level of that sale, and every
\* beneficiary's totalEarnings incremented once per credit.
C1_OneDistributionPerKey ==
    /\ \A k \in Keys, l \in 1..MaxChainLevel :
          Cardinality({i \in EntriesOfSale(k) : commissions[i].level = l}) <= 1
    /\ \A u \in Users : stats[u].totalEarningsUsd = SumCredits(CreditsOnce(u))

\* C2: a Sale with a resolved referrer is in the store exactly when its
\* distribution is: the referrer's level-1 entry exists whenever the Sale does,
\* and no entry exists without its Sale.
C2_SaleIffDistributed ==
    \A k \in Keys :
        Resolved(k) <=>
            \E i \in EntriesOfSale(k) :
                /\ commissions[i].level = 1
                /\ commissions[i].beneficiaryId = bundleSales[k].referrerId

\* C3: once the calls made for a key have ended and one of them was answered
\* with success, a sale with a resolved referrer has its commissions distributed
\* exactly once, whatever calls failed before (the distribution itself ran at
\* most once).
C3_RetryDistributesOnce ==
    \A k \in Keys :
        (/\ ~SaleInFlight(k)
         /\ Answered(k) # {}
         /\ Cardinality(Recorded(k)) <= 1
         /\ Resolved(k))
        => Cardinality({i \in EntriesOfSale(k) : commissions[i].level = 1}) = 1

\* C8: every Commission Entry carries the deadline of its Sale record; an entry
\* is approved, or selected by a settlement, only at or after its deadline.
\* (T is the handler's clock reading when it computed the deadline.)
C8_HoldDeadline ==
    /\ \A i \in EntryIds :
          /\ bundleSales[commissions[i].transactionId].exists
          /\ commissions[i].holdUntil = bundleSales[commissions[i].transactionId].holdUntil
          /\ commissions[i].status = "approved" => commissions[i].holdUntil <= now
    /\ \A q \in SettleIds : \A i \in settle[q].snap : commissions[i].holdUntil <= now

\* The parts of C8 about the hold itself: no approval and no selection before
\* the entry's own deadline, and a query at or after it selects the entry.
HoldRespected ==
    /\ \A i \in EntryIds : commissions[i].status = "approved" => commissions[i].holdUntil <= now
    /\ \A q \in SettleIds : \A i \in settle[q].snap : commissions[i].holdUntil <= now

\* The amounts of p's entries that a query at time t must select.
DueAt(p, t) ==
    {i \in EntryIds : /\ commissions[i].beneficiaryId = p
                      /\ commissions[i].status = "pending"
                      /\ ~(commissions[i].holdUntil > t)}
RECURSIVE SumOf(_, _)
SumOf(cs, ids) ==
    IF ids = {} THEN 0
    ELSE LET i == CHOOSE j \in ids : TRUE IN cs[i].amountUsd + SumOf(cs, ids \ {i})

\* C9: one settlePending(p) call selects at time t exactly p's pending entries
\* with deadline <= t; its commit sets exactly those to approved and moves
\* exactly their sum from p's pending to p's available balance, totalEarnings
\* unchanged; with nothing selected it ends without a write.
C9_SettleMovesSelected ==
    [][\A q \in SettleIds :
        /\ (settle[q].pc = "idle" /\ settle'[q].pc # "idle") =>
              LET due == DueAt(settle'[q].uid, now) IN
              /\ commissions' = commissions /\ stats' = stats
              /\ due = {} => settle'[q].pc = "done"
              /\ due # {} => settle'[q].pc = "commit" /\ settle'[q].snap = due
        /\ (settle[q].pc = "commit" /\ settle'[q].pc = "done") =>
              LET p == settle[q].uid
                  sel == settle[q].snap
                  sum == SumOf(commissions, sel)
              IN
              /\ Len(commissions') = Len(commissions)
              /\ \A i \in EntryIds :
                    commissions'[i] = IF i \in sel
                                      THEN [commissions[i] EXCEPT !.status = "approved"]
                                      ELSE commissions[i]
              /\ stats'[p].pendingBalanceUsd = stats[p].pendingBalanceUsd - sum
              /\ stats'[p].availableBalanceUsd = stats[p].availableBalanceUsd + sum
              /\ stats'[p].totalEarningsUsd = stats[p].totalEarningsUsd
              /\ \A u \in Users \ {p} : stats'[u] = stats[u]
      ]_vars

\* A settlement has released an entry whose deadline was the very instant of
\* its query, and the amount is in the available balance.
C9_Witness ==
    \E i \in EntryIds :
        /\ commissions[i].status = "approved"
        /\ commissions[i].holdUntil = now
        /\ stats[commissions[i].beneficiaryId].availableBalanceUsd = commissions[i].amountUsd
        /\ \E q \in SettleIds : settle[q].pc = "done" /\ settle[q].uid = commissions[i].beneficiaryId

\* C10: an entry's amount is moved from pending to available exactly once: the
\* available balance is the sum of the participant's approved entries, and the
\* pending balance never goes below zero.
C10_ReleasedOnce ==
    \A u \in Users :
        /\ stats[u].availableBalanceUsd =
              SumOf(commissions, {i \in EntriesOf(u) : commissions[i].status = "approved"})
        /\ stats[u].pendingBalanceUsd >= 0

\* The participant l-1 referrer links above u in the stored relation (u itself
\* for l = 1), or Null where the relation ends.
RECURSIVE AncestorAt(_, _)
AncestorAt(u, l) ==
    IF u \notin Users \/ l < 1 THEN Null
    ELSE IF l = 1 THEN u
    ELSE IF ~users[u].exists THEN Null
    ELSE AncestorAt(users[u].referredBy, l - 1)

\* The tier table of the data model: the deepest level a tier receives, and the
\* percentage of each level.
MaxReceivableLevel(plan) ==
    CASE plan = "basic" -> 1 [] plan = "pro" -> 2 [] plan = "elite" -> 4 [] OTHER -> 1
LevelPercent(l) == CASE l = 1 -> 50 [] l = 2 -> 20 [] l = 3 -> 10 [] l = 4 -> 5 [] OTHER -> 0
\* c is amount * pct / 100 rounded half up to the cent.
IsHalfUpShare(c, amount, pct) ==
    200 * c <= 2 * amount * pct + 100 /\ 2 * amount * pct + 100 < 200 * (c + 1)
\* c is amount * pct / 100 rounded to a nearest cent.
IsNearestShare(c, amount, pct) ==
    200 * c <= 2 * amount * pct + 100 /\ 2 * amount * pct <= 200 * c + 100

HasEntry(k, u, l) ==
    \E i \in EntriesOfSale(k) : commissions[i].beneficiaryId = u /\ commissions[i].level = l

\* C5: for a recorded sale the participants holding a Commission Entry are
\* exactly the chain entries (referrer at level 1, its referrer at level 2, ...)
\* whose own tier's cap reaches their level, each at that level and with that
\* level's share of the sale; no other participant's tier enters.
C5_CreditedIffOwnCap ==
    \A k \in Keys :
        Recorded(k) # {} =>
            /\ \A u \in Users, l \in 0..(NUsers + 1) :
                  HasEntry(k, u, l) <=>
                      /\ AncestorAt(bundleSales[k].referrerId, l) = u
                      /\ l <= MaxReceivableLevel(users[u].plan)
            /\ \A i \in EntriesOfSale(k) :
                  IsNearestShare(commissions[i].amountUsd, bundleSales[k].amountUsd,
                                 LevelPercent(commissions[i].level))

\* A sale through the code of the participant at depth 4 was recorded with a
\* Basic participant skipped between two credited ones.
C5_Witness ==
    \E k \in Keys :
        /\ Recorded(k) # {}
        /\ bundleSales[k].referrerId = 4
        /\ HasEntry(k, 4, 1) /\ ~HasEntry(k, 3, 2) /\ users[3].plan = "basic"
        /\ ~HasEntry(k, 2, 3) /\ users[2].plan = "pro"
        /\ HasEntry(k, 1, 4)

\* C6: the owner of the code used on the sale is level 1 of the chain, the
\* referrer of the level-j participant is level j+1, levels run 1, 2, ... up to
\* 4, in the handler's chain and in the entries it writes.
C6_ReferrerIsLevelOne ==
    /\ \A r \in SaleIds :
          LET c == sale[r].chain IN
          /\ Len(c) <= 4
          /\ c # << >> => users[c[1].id].referralCode = sale[r].code
          /\ \A j \in 1..Len(c) :
                /\ c[j].level = j
                /\ c[j].id = AncestorAt(sale[r].referrer.id, j)
    /\ \A i \in EntryIds :
          /\ commissions[i].level \in 1..4
          /\ commissions[i].beneficiaryId =
                AncestorAt(bundleSales[commissions[i].transactionId].referrerId,
                           commissions[i].level)

\* A handler holds a full chain of four levels, ending four links above the
\* owner of the code.
C6_Witness ==
    \E r \in SaleIds :
        /\ Len(sale[r].chain) = 4
        /\ sale[r].chain[4].id = 1
        /\ sale[r].code = CodeOf(4)

\* Scenario A: Elite 1 referred Pro 2, who referred Basic 3; one sale of 100.00
\* settlement units through 3's code has been recorded under key k.
ScenarioA(k) ==
    /\ users[1].plan = "elite" /\ users[2].plan = "pro" /\ users[3].plan = "basic"
    /\ users[3].referredBy = 2 /\ users[2].referredBy = 1
    /\ Recorded(k) # {}
    /\ bundleSales[k].referrerId = 3
    /\ bundleSales[k].amountUsd = 10000

Credit(k, u, l) ==
    SumOf(commissions, {i \in EntriesOfSale(k) :
                            commissions[i].beneficiaryId = u /\ commissions[i].level = l})
Distributed(k) == SumOf(commissions, EntriesOfSale(k))

\* C7 as stated: Scenario A credits 2 (Pro) with 50 at level 1 and 1 (Elite)
\* with 20 at level 2, 70 in all.
C7_ScenarioA_AsStated ==
    \A k \in Keys :
        ScenarioA(k) =>
            /\ Credit(k, 2, 1) = 5000
            /\ Credit(k, 1, 2) = 2000
            /\ Distributed(k) = 7000

\* C7 amended: Scenario A credits 3 (Basic, the owner of the code) with 50 at
\* level 1, 2 (Pro) with 20 at level 2 and 1 (Elite) with 10 at level 3, 80 in
\* all.
C7_ScenarioA ==
    \A k \in Keys :
        ScenarioA(k) =>
            /\ Credit(k, 3, 1) = 5000
            /\ Credit(k, 2, 2) = 2000
            /\ Credit(k, 1, 3) = 1000
            /\ Distributed(k) = 8000
            /\ Cardinality(EntriesOfSale(k)) = 3

C7_Witness == \E k \in Keys : ScenarioA(k) /\ stats[2].pendingBalanceUsd = 2000

\* C4: after any sequence and interleaving of bootstraps, sales, settlements,
\* plan changes and admin operations, every Balance Record has
\* totalEarnings = pending + available, in cents (a field the document lacks
\* counts as 0).
C4_TotalIsPendingPlusAvailable ==
    \A u \in Users :
        stats[u].totalEarningsUsd = stats[u].pendingBalanceUsd + stats[u].availableBalanceUsd

\* A Balance Record was rewritten by ensureStats between the query and the
\* commit of a settlement: nothing earned on record, a negative pending balance
\* and a positive available one.
C4_Witness ==
    \E u \in Users :
        /\ stats[u].exists
        /\ stats[u].totalEarningsUsd = 0
        /\ stats[u].pendingBalanceUsd < 0
        /\ stats[u].availableBalanceUsd > 0
        /\ \E b \in BootIds : boot[b].pc = "done" /\ boot[b].uid = u

\* A view request that has read some of the data it answers with.
HasRead(v) == view[v].pc \notin {"idle", "settling"}
DueReleased(v) == \A i \in view[v].dueAtArrival : commissions[i].status = "approved"

\* C11 as stated: every dashboard request and every network-view request has
\* run settlePending for its participant before it reads the view's data, so
\* the entries that were pending past their deadline when it arrived are
\* released by then.
C11_EveryViewSettlesFirst ==
    \A v \in ViewIds : HasRead(v) => DueReleased(v)

\* C11 amended: every dashboard request has run settlePending for its
\* participant to the end before it reads the view's data, the entries due at
\* its arrival are released by then; a network-view request runs no
\* settlePending.
C11_DashboardSettlesFirst ==
    \A v \in ViewIds :
        /\ (view[v].kind = "dashboard" /\ HasRead(v)) =>
              /\ view[v].settle \in SettleIds
              /\ settle[view[v].settle].pc = "done"
              /\ settle[view[v].settle].uid = view[v].uid
              /\ DueReleased(v)
        /\ view[v].kind = "network" => view[v].settle = 0

\* A dashboard request that found an entry past its deadline has answered and
\* saw the released amount as available; a network request of a participant
\* with such an entry has answered and the entry is still pending.
C11_Witness ==
    /\ \E v \in ViewIds :
          /\ view[v].kind = "dashboard" /\ view[v].pc = "done"
          /\ view[v].dueAtArrival # {}
          /\ view[v].seenAvailable > 0
    /\ \E v \in ViewIds :
          /\ view[v].kind = "network" /\ view[v].pc = "done"
          /\ \E i \in view[v].dueAtArrival : commissions[i].status = "pending"

\* C12: a recordSale call that finds a Sale record under its idempotency key is
\* answered with success ("exists") in that very step and writes nothing: the
\* Sale, the Commission Entries, the Balance Records, the activity notes and
\* the participants are left as they were.
C12_ReplayWritesNothing ==
    [][\A r \in SaleIds :
          (/\ sale[r].pc = "idle" /\ sale'[r].pc # "idle"
           /\ sale'[r].key \in Keys
           /\ bundleSales[sale'[r].key].exists)
          => /\ sale'[r].pc = "done" /\ sale'[r].result = "exists"
             /\ bundleSales' = bundleSales
             /\ commissions' = commissions
             /\ stats' = stats
             /\ activity' = activity
             /\ users' = users
      ]_vars

\* A call was answered "exists" for a key whose sale is distributed: the
\* entries of the first call are there, one per level.
C12_Witness ==
    \E r \in SaleIds :
        /\ sale[r].result = "exists"
        /\ bundleSales[sale[r].key].exists
        /\ HasEntry(sale[r].key, bundleSales[sale[r].key].referrerId, 1)
        /\ \E q \in SaleIds : sale[q].key = sale[r].key /\ sale[q].result = "recorded"

\* The syntactic check in the claims' words: the prefix AF-, then at least 4
\* characters, all of them capital letters or digits.
CodeChars == {"A","B","C","D","E","F","G","H","I","J","K","L","M","N","O","P","Q","R","S",
              "T","U","V","W","X","Y","Z","0","1","2","3","4","5","6","7","8","9"}
WellFormedCode(c) ==
    /\ Len(c) >= 7
    /\ SubSeq(c, 1, 3) = <<"A", "F", "-">>
    /\ \A i \in 4..Len(c) : c[i] \in CodeChars
CodeSent(r) == inbox[r].body.referralCode
\* The request's code is absent, fails the syntactic check, or is held by no
\* participant.
Unresolved(r) ==
    \/ ~CodeSent(r).present
    \/ ~WellFormedCode(CodeSent(r).value)
    \/ ~\E u \in Users : users[u].exists /\ users[u].referralCode = CodeSent(r).value
Rejections == {"not-configured", "unauthorized", "invalid"}

\* C13: a sale whose code is absent, syntactically invalid or unknown, once it
\* passed the checks and the dedup, is answered with success ("no-referrer") by
\* the step that writes its Sale with status paid and a null referrer; that
\* step creates no Commission Entry and changes no Balance Record (nor any
\* activity note), and no later step of the request exists.
C13_NoReferrerSale ==
    [][\A r \in SaleIds :
          (/\ sale[r].result = "none"
           /\ sale'[r].result \notin ({"none", "exists", "failed"} \cup Rejections)
           /\ Unresolved(r))
          => /\ sale'[r].result = "no-referrer" /\ sale'[r].pc = "done"
             /\ bundleSales'[sale[r].key].exists
             /\ bundleSales'[sale[r].key].status = "paid"
             /\ bundleSales'[sale[r].key].referrerId = Null
             /\ commissions' = commissions
             /\ stats' = stats
             /\ activity' = activity
      ]_vars

\* Sales with an unknown code and with a syntactically invalid one were both
\* answered "no-referrer"; their Sales are stored as paid with a null referrer
\* and no Commission Entry exists.
C13_Witness ==
    /\ \E r \in SaleIds :
          /\ CodeSent(r) = Str(UnknownCode) /\ sale[r].result = "no-referrer"
          /\ bundleSales[sale[r].key].status = "paid"
          /\ bundleSales[sale[r].key].referrerId = Null
    /\ \E r \in SaleIds : CodeSent(r) = Str(BadCode) /\ sale[r].result = "no-referrer"
    /\ commissions = << >>

\* A body the claim calls malformed: buyer email missing or without "@",
\* amount missing, not a number or not positive, key or code shorter than 3.
Malformed(body) ==
    \/ ~body.buyerEmail.present
    \/ ~\E i \in 1..Len(body.buyerEmail.value) : body.buyerEmail.value[i] = "@"
    \/ ~body.amountPen.present \/ ~body.amountPen.isNumber \/ body.amountPen.value <= 0
    \/ body.externalId.present /\ Len(body.externalId.value) < 3
    \/ body.referralCode.present /\ Len(body.referralCode.value) < 3

\* C18: a recordSale request with a malformed body is rejected in the step it
\* is received in, before any store call, with "Invalid payload" when it
\* carried the right key; Sales, Commission Entries, Balance Records (and
\* every other collection) are unchanged.
C18_MalformedRejected ==
    [][\A r \in SaleIds :
          (sale[r].pc = "idle" /\ sale'[r].pc # "idle" /\ Malformed(inbox[r].body))
          => /\ sale'[r].pc = "done"
             /\ sale'[r].result \in Rejections
             /\ (SALES_API_KEY # "" /\ inbox[r].header = Header(SALES_API_KEY))
                   => sale'[r].result = "invalid"
             /\ bundleSales' = bundleSales
             /\ commissions' = commissions
             /\ stats' = stats
             /\ activity' = activity /\ users' = users /\ network' = network
      ]_vars

\* Requests with a non-numeric amount and with an invalid email, both with the
\* right key, were answered "invalid", and the store is empty of sales.
C18_Witness ==
    /\ \E r \in SaleIds :
          /\ ~inbox[r].body.amountPen.isNumber /\ inbox[r].body.amountPen.present
          /\ sale[r].result = "invalid"
    /\ \E r \in SaleIds :
          /\ inbox[r].body.buyerEmail = Str(<<"a", "b">>)
          /\ sale[r].result = "invalid"
    /\ \A k \in Keys : ~bundleSales[k].exists

\* C19: a POST /bundle/sales whose x-sales-key header is missing or differs
\* from the configured key is rejected in the step it is received in and
\* changes no stored state; with no key configured every request is rejected.
C19_KeyRequired ==
    [][\A r \in SaleIds :
          (sale[r].pc = "idle" /\ sale'[r].pc # "idle")
          => /\ (SALES_API_KEY = ""
                  \/ ~inbox[r].header.present
                  \/ inbox[r].header.value # SALES_API_KEY)
                => /\ sale'[r].pc = "done"
                   /\ sale'[r].result \in {"not-configured", "unauthorized"}
                   /\ bundleSales' = bundleSales
                   /\ commissions' = commissions
                   /\ stats' = stats
                   /\ activity' = activity /\ users' = users /\ network' = network
             /\ SALES_API_KEY = "" => sale'[r].result = "not-configured"
      ]_vars

\* With a key configured, a request without the header and one with another
\* key were both answered "unauthorized" and nothing is stored.
C19_Witness ==
    /\ SALES_API_KEY = ConfiguredKey
    /\ \E r \in SaleIds : inbox[r].header = NoHeader /\ sale[r].result = "unauthorized"
    /\ \E r \in SaleIds : inbox[r].header = Header("other-key")
                            /\ sale[r].result = "unauthorized"
    /\ \A k \in Keys : ~bundleSales[k].exists

\* With no key configured, a request carrying an empty header and a
\* well-formed body was answered "not-configured".
C19_WitnessNoKey ==
    /\ SALES_API_KEY = ""
    /\ \E r \in SaleIds : inbox[r].header = Header("") /\ sale[r].result = "not-configured"

\* C20: in sale intake a code that fails the syntactic check never reaches the
\* query of the participant store (nor the walk up the chain): its request
\* holds no referrer and ends without a distribution.
C20_InvalidCodeNoQuery ==
    \A r \in SaleIds :
        (CodeSent(r).present /\ ~WellFormedCode(CodeSent(r).value))
        => /\ sale[r].pc \notin {"find", "walk", "commit"}
           /\ sale[r].referrer = NoRef
           /\ sale[r].result \notin {"recorded"}

\* Requests with a too-short body of the code and with the lower-case spelling
\* of a participant's code were answered "no-referrer".
C20_Witness ==
    /\ \E r \in SaleIds : CodeSent(r) = Str(BadCode) /\ sale[r].result = "no-referrer"
    /\ \E r \in SaleIds : CodeSent(r) = Str(LowerCodeOf(NUsers))
                            /\ sale[r].result = "no-referrer"

\* The stored referrer of participant u, or Null when u has no document or no
\* referrer.
ParentOf(u) ==
    IF users[u].exists /\ users[u].referredBy \in Users THEN users[u].referredBy ELSE Null
\* The participants reached from u by 1..n referrer links.
RECURSIVE AncestorsWithin(_, _)
AncestorsWithin(u, n) ==
    IF n = 0 \/ ParentOf(u) = Null THEN {}
    ELSE {ParentOf(u)} \cup AncestorsWithin(ParentOf(u), n - 1)

\* C14: in every reachable state the referrer relation is acyclic: no
\* participant is reached from itself by following referrer links (each
\* participant has one referrer field, so at most one referrer).
C14_ReferrerAcyclic ==
    \A u \in Users : users[u].exists => u \notin AncestorsWithin(u, NUsers)

\* C15: once a participant's document holds the referrer written at its
\* creation, no step changes the referrer stored in that document.
C15_ReferrerFixed ==
    [][\A u \in Users :
          (users[u].exists /\ users'[u].exists /\ users[u].referredBy # Undefined)
          => users'[u].referredBy = users[u].referredBy
      ]_vars

\* C16: every write to a Balance Record's monetary fields is an additive
\* increment and none overwrites them, so no credit is lost: while a record
\* exists its totalEarnings never goes down, and a step that does not credit
\* or release leaves the three fields as they are.
C16_NoBalanceOverwrite ==
    [][\A u \in Users :
          (stats[u].exists /\ stats'[u].exists)
          => /\ stats'[u].totalEarningsUsd >= stats[u].totalEarningsUsd
             /\ (commissions' = commissions)
                   => /\ stats'[u].totalEarningsUsd = stats[u].totalEarningsUsd
                      /\ stats'[u].pendingBalanceUsd = stats[u].pendingBalanceUsd
                      /\ stats'[u].availableBalanceUsd = stats[u].availableBalanceUsd
      ]_vars

\* The requests in hand carry different idempotency keys.
DistinctKeys ==
    \A r1, r2 \in SaleIds :
        (r1 # r2 /\ sale[r1].pc # "idle" /\ sale[r2].pc # "idle") => sale[r1].key # sale[r2].key
Untouched(u) ==
    /\ \A i \in EntriesOf(u) : commissions[i].status = "pending"
    /\ \A q \in SettleIds : settle[q].pc = "commit" => settle[q].uid # u

\* C17: while recordSale calls with different idempotency keys run in any
\* interleaving, a beneficiary's totalEarnings is the prior value (0) plus the
\* amounts of all entries committed for it, one entry per sale, and so is its
\* pending balance as long as no settlement moved any of it.
C17_ConcurrentCreditsAdd ==
    DistinctKeys =>
        \A u \in Users :
            /\ stats[u].totalEarningsUsd = SumOf(commissions, EntriesOf(u))
            /\ \A k \in Keys : Cardinality(EntriesOf(u) \cap EntriesOfSale(k)) <= 1
            /\ Untouched(u) => stats[u].pendingBalanceUsd = SumOf(commissions, EntriesOf(u))

\* The second call was received after the first and has committed while the
\* first, under another key, is about to commit its credit to the same
\* beneficiary.
C17_Witness ==
    \E r1, r2 \in SaleIds :
        /\ r1 < r2
        /\ sale[r1].pc = "commit" /\ sale[r2].result = "recorded"
        /\ sale[r1].key # sale[r2].key
        /\ sale[r1].referrer.id = NUsers
        /\ stats[NUsers].totalEarningsUsd = commissionAmountOf[sale[r1].amountUsd, 50]
        /\ stats[NUsers].pendingBalanceUsd = stats[NUsers].totalEarningsUsd

\* Both calls have committed: the beneficiary holds the sum of both credits.
C17_BothCredited ==
    \E r1, r2 \in SaleIds :
        /\ sale[r1].result = "recorded" /\ sale[r2].result = "recorded"
        /\ sale[r1].key # sale[r2].key
        /\ stats[NUsers].totalEarningsUsd = 2 * commissionAmountOf[amountUsdOf[37037], 50]

\* Codes a and b differ at most in the case of their letters.
SameButCase(a, b) == toUpperCase(a) = toUpperCase(b)

\* C21: code lookup is case-normalized: a sale whose code differs from an
\* existing participant's code only in letter case, once its referrer has been
\* resolved and its Sale written, is attributed to that participant.
C21_LookupIgnoresCase ==
    \A r \in SaleIds, u \in Users :
        (/\ CodeSent(r).present
         /\ users[u].exists
         /\ SameButCase(CodeSent(r).value, users[u].referralCode)
         /\ sale[r].result \in {"recorded", "no-referrer"})
        => /\ sale[r].result = "recorded"
           /\ bundleSales[sale[r].key].referrerId = u

\* The participant k referrer links above u, every participant on the way
\* (u included) having a document; Null where the links end.
RECURSIVE HopsUp(_, _)
HopsUp(u, k) ==
    IF k = 0 THEN u
    ELSE IF u \notin Users THEN Null
    ELSE IF ~users[u].exists THEN Null
    ELSE HopsUp(users[u].referredBy, k - 1)
ReachesIn(u, root, k) == u \in Users /\ users[u].exists /\ HopsUp(u, k) = root
Listed(v, u, k) == \E i \in 1..Len(view[v].members) : view[v].members[i] = [id |-> u, level |-> k]
Returned(v) == view[v].kind = "downline" /\ view[v].pc = "done"

\* C22: buildDownline(root, maxLevel) returns as level-k members exactly the
\* participants whose referrer chain reaches root in k hops, 1 <= k <=
\* maxLevel, each listed once per level, and counts gives for every visited
\* level the number of its members.
C22_DownlineExact ==
    \A v \in ViewIds :
        Returned(v) =>
            LET m == view[v].members
                root == view[v].uid
            IN
            /\ \A i \in 1..Len(m) : m[i].level \in 1..view[v].maxLevels /\ m[i].id \in Users
            /\ \A u \in Users, k \in 1..view[v].maxLevels :
                  Listed(v, u, k) <=> ReachesIn(u, root, k)
            /\ \A i, j \in 1..Len(m) : m[i] = m[j] => i = j
            /\ \A k \in 1..Len(view[v].counts) :
                  view[v].counts[k] = Cardinality({u \in Users : ReachesIn(u, root, k)})

\* A call with four levels returned members on three levels of a relation
\* that has a missing participant elsewhere.
C22_Witness ==
    \E v \in ViewIds :
        /\ Returned(v) /\ view[v].maxLevels = 4
        /\ Listed(v, 2, 1) /\ Listed(v, 3, 2) /\ Listed(v, 4, 3)
        /\ view[v].counts = <<1, 1, 1, 0>>

\* C28: buildDownline ends, after at most maxLevel lookups and with no lookup
\* after a level that yielded no member, whatever the stored relation is.
C28_DownlineTerminates ==
    /\ [](\A v \in ViewIds :
            /\ Len(view[v].counts) <= view[v].maxLevels
            /\ \A k \in 1..(Len(view[v].counts) - 1) : view[v].counts[k] # 0
            /\ (view[v].pc = "downline" /\ view[v].counts # << >>)
                  => view[v].counts[Len(view[v].counts)] # 0)
    /\ \A v \in ViewIds : (view[v].pc = "downline") ~> (view[v].pc = "done")

\* A call on a relation with a cycle through its root has ended after the
\* full number of lookups, the root listed among its own descendants.
C28_Witness ==
    \E v \in ViewIds :
        /\ Returned(v) /\ view[v].maxLevels = 4
        /\ Len(view[v].counts) = 4
        /\ Listed(v, view[v].uid, 2) /\ Listed(v, view[v].uid, 4)

\* The participant at level l of the walk that starts at ref: ref itself at
\* level 1, then the referrer of the level before, as long as that referrer is
\* set and has a document; Null from the break on.
ReachedAt(ref, l) ==
    LET h == HopsUp(ref, l - 1) IN
    IF h \in Users /\ users[h].exists THEN h ELSE Null

\* C23: the upline walk follows referrer links for at most 4 levels and stops
\* at the first participant without a referrer or whose referrer's document
\* is missing; the sale is then recorded all the same, and exactly the
\* participants reached before the break are considered: each of them is
\* credited iff its own tier reaches its level, nobody else is.
C23_WalkTruncates ==
    /\ \A r \in SaleIds :
          LET c == sale[r].chain IN
          /\ Len(c) <= 4
          /\ \A j \in 1..Len(c) :
                c[j].level = j /\ c[j].id # Null /\ c[j].id = ReachedAt(sale[r].referrer.id, j)
          /\ sale[r].pc = "commit" =>
                (Len(c) = 4 \/ ReachedAt(sale[r].referrer.id, Len(c) + 1) = Null)
          /\ (sale[r].pc = "done" /\ bundleSales[sale[r].key].referrerId # Null)
                => sale[r].result = "recorded"
    /\ \A k \in Keys :
          Recorded(k) # {} =>
              /\ \A i \in EntriesOfSale(k) : commissions[i].level \in 1..4
              /\ \A u \in Users, l \in 1..4 :
                    HasEntry(k, u, l) <=>
                        /\ ReachedAt(bundleSales[k].referrerId, l) = u
                        /\ l <= MaxReceivableLevel(users[u].plan)

\* A sale through the code of participant 3 was recorded although the
\* document of 3's referrer 2 is missing: 3 is credited at level 1, and the
\* Elite participant 1 above the gap has nothing.
C23_Witness ==
    \E k \in Keys :
        /\ Recorded(k) # {}
        /\ bundleSales[k].referrerId = 3
        /\ users[3].referredBy = 2 /\ ~users[2].exists /\ users[1].exists
        /\ HasEntry(k, 3, 1)
        /\ Cardinality(EntriesOfSale(k)) = 1

\* The sum of the unrounded shares of the entries ids, in 1/100 cents.
RECURSIVE SumShares(_)
SumShares(ids) ==
    IF ids = {} THEN 0
    ELSE LET i == CHOOSE j \in ids : TRUE
         IN bundleSales[commissions[i].transactionId].amountUsd * commissions[i].percent
            + SumShares(ids \ {i})

\* The total distributed for a recorded sale is within one cent per credited
\* level of the sum of the unrounded shares, and at most the sale amount.
SharesBounded ==
    \A k \in Keys :
        Recorded(k) # {} =>
            LET n == Cardinality(EntriesOfSale(k))
                exact == SumShares(EntriesOfSale(k))
            IN /\ 100 * Distributed(k) <= exact + 100 * n
               /\ exact <= 100 * Distributed(k) + 100 * n
               /\ Distributed(k) <= bundleSales[k].amountUsd

\* C24: every Commission Entry's amount is the sale amount times its level's
\* percentage (50, 20, 10, 5) rounded half up to the cent, level by level, so
\* the total distributed is within one cent per credited level of the sum of
\* the unrounded shares and never more than the sale amount.
C24_HalfUpShares ==
    /\ \A i \in EntryIds :
          /\ commissions[i].percent = LevelPercent(commissions[i].level)
          /\ IsHalfUpShare(commissions[i].amountUsd,
                           bundleSales[commissions[i].transactionId].amountUsd,
                           commissions[i].percent)
    /\ SharesBounded

\* C25: the activity note for the direct referrer is written outside the
\* atomic commit of the ledger: the step that writes a sale's Commission
\* Entries and balance increments does not write the note, so that the note
\* failing cannot take the entries and increments with it.
C25_NoteOutsideCommit ==
    [][\A r \in SaleIds :
          (sale[r].pc = "commit" /\ sale'[r].result = "recorded") => activity' = activity]_vars

\* C26: a Commission Entry is created pending; the one thing that ever
\* changes in it is its status, from pending to approved, in the commit of a
\* settlePending of its own beneficiary.  No other step (sale, bootstrap,
\* plan change, admin patch or delete, passing of time, a settlement of
\* another participant) removes it or changes its status, amount, level or
\* beneficiary, and it never returns to pending.
C26_EntryLifecycle ==
    [][/\ Len(commissions') >= Len(commissions)
       /\ \A i \in (Len(commissions) + 1)..Len(commissions') :
             commissions'[i].status = "pending"
       /\ \A i \in EntryIds :
             \/ commissions'[i] = commissions[i]
             \/ /\ commissions[i].status = "pending"
                /\ commissions'[i] = [commissions[i] EXCEPT !.status = "approved"]
                /\ \E q \in SettleIds :
                      /\ settle[q].pc = "commit" /\ settle'[q].pc = "done"
                      /\ settle[q].uid = commissions[i].beneficiaryId]_vars

\* An entry was approved by the settlement of its beneficiary while an entry
\* of the same sale for another participant is still pending.
C26_Witness ==
    \E i, j \in EntryIds :
        /\ commissions[i].status = "approved"
        /\ \E q \in SettleIds :
              settle[q].pc = "done" /\ settle[q].uid = commissions[i].beneficiaryId
        /\ commissions[j].transactionId = commissions[i].transactionId
        /\ commissions[j].beneficiaryId # commissions[i].beneficiaryId
        /\ commissions[j].status = "pending"

\* C27: no two participants hold the same referral code, whatever bootstraps
\* have run, so that a code has at most one owner.
C27_CodesUnique ==
    \A u, v \in Users :
        (u # v /\ users[u].exists /\ users[v].exists /\ users[u].referralCode # NoCode)
            => users[u].referralCode # users[v].referralCode

\* The sum of the amounts of participant u's entries in the given statuses.
SumByStatus(u, statuses) ==
    SumOf(commissions, {i \in EntriesOf(u) : commissions[i].status \in statuses})

\* C29: for every participant, pendingBalance is the sum of its pending
\* entries, availableBalance the sum of its approved entries and totalEarnings
\* the sum of all its entries.
C29_BalancesMatchEntries ==
    \A u \in Users :
        /\ stats[u].pendingBalanceUsd = SumByStatus(u, {"pending"})
        /\ stats[u].availableBalanceUsd = SumByStatus(u, {"approved"})
        /\ stats[u].totalEarningsUsd = SumByStatus(u, {"pending", "approved"})

\* C30: no participant's pendingBalance, availableBalance or totalEarnings is
\* ever negative.
C30_BalancesNotNegative ==
    \A u \in Users :
        /\ stats[u].pendingBalanceUsd >= 0
        /\ stats[u].availableBalanceUsd >= 0
        /\ stats[u].totalEarningsUsd >= 0

\* C31: for one sale each participant holds at most one Commission Entry, the
\* sale has at most 4 entries, and no two of its entries have the same level.
C31_OneEntryPerParticipant ==
    \A k \in Keys :
        /\ Cardinality(EntriesOfSale(k)) <= 4
        /\ \A i, j \in EntriesOfSale(k) :
              i # j => /\ commissions[i].beneficiaryId # commissions[j].beneficiaryId
                       /\ commissions[i].level # commissions[j].level

\* No plan-changing request is between its write to users and its write to
\* stats.
NoPlanChangeInFlight == \A p \in PlanIds : planreq[p].pc \in {"idle", "done"}

\* C32: whenever no plan-changing request is in flight, every participant's
\* tier snapshot on its Balance Record equals the tier stored on the
\* participant, whatever the interleaving of upgrades, webhooks and admin
\* patches.
C32_SnapshotFollowsPlan ==
    NoPlanChangeInFlight =>
        \A u \in Users : users[u].exists => stats[u].plan = users[u].plan

\* C33: when POST /users/bootstrap completes for an id, the id's participant
\* document has a non-empty referral code and a defined referrer (an id or
\* null), whichever plan changes ran for the id before.
C33_BootstrapCompletesDocument ==
    [][\A b \in BootIds :
          (boot[b].pc # "done" /\ boot'[b].pc = "done" /\ users'[boot'[b].uid].exists)
              => /\ users'[boot'[b].uid].referralCode # NoCode
                 /\ users'[boot'[b].uid].referredBy # Undefined]_vars

\* The network edges that list participant u under a referrer.
EdgesTo(u) == {edge \in network : edge[2] = u}

\* The bootstrap in slot b found the participant's document when it arrived.
FoundDocument(b) == boot[b].pc \notin {"idle", "done"} /\ boot[b].referralCode = NoCode

\* A bootstrap that found the document changes no participant document,
\* network edge or activity note.
RepeatedBootstrapWritesNothing ==
    [][\A b \in BootIds :
          (boot'[b] # boot[b]
             /\ (FoundDocument(b) \/ (boot[b].pc = "idle" /\ users[boot'[b].uid].exists)))
              => (users' = users /\ network' = network /\ activity' = activity)]_vars

\* C34: a bootstrap for an id whose document exists changes no participant
\* document, network edge or activity note, whatever its referrerCode; and
\* once the bootstraps of an id have completed, two concurrent first ones
\* included, the id is listed under at most one referrer, the one stored on
\* its document.
C34_BootstrapIdempotent ==
    /\ RepeatedBootstrapWritesNothing
    /\ [](\A u \in Users :
             (\A b \in BootIds : boot[b].pc # "idle" => boot[b].pc = "done")
                 => /\ Cardinality(EdgesTo(u)) <= 1
                    /\ \A edge \in EdgesTo(u) : users[u].referredBy = edge[1])

\* C35: a participant's stored tier becomes pro or elite only in a step of a
\* payment provider's confirmation for that participant (PayPal or Culqi
\* webhook) or of an admin patch; no request of the participant alone does it.
C35_TierRaisedByPaymentOnly ==
    [][\A u \in Users :
          (users'[u].plan \in {"pro", "elite"} /\ users'[u].plan # users[u].plan)
              => \E p \in PlanIds :
                    /\ planreq'[p] # planreq[p]
                    /\ planreq'[p].uid = u
                    /\ planreq'[p].kind \in {"paypal", "culqi", "patch"}]_vars

\* The step in which slot p handles a PayPal event of a suspending type.
SuspendingStep(p) ==
    /\ planreq[p].pc = "idle"
    /\ planreq'[p].kind = "paypal"
    /\ planreq'[p].event \in SuspendingEvents

\* C36: a PayPal event of type cancelled, suspended, expired or payment
\* failed sets the participant's subscription status to SUSPENDED and changes
\* neither the participant's plan nor any Balance Record, then or in a later
\* write of the request: the level cap a sale computes from the plan is the
\* same as before the event.
C36_SuspensionKeepsPlan ==
    [][\A p \in PlanIds :
          SuspendingStep(p) =>
              LET uid == planreq'[p].uid IN
              /\ users'[uid].status = "SUSPENDED"
              /\ users'[uid].plan = users[uid].plan
              /\ planLevelCap(PlanOrBasic(users'[uid].plan))
                    = planLevelCap(PlanOrBasic(users[uid].plan))
              /\ \A u \in Users \ {uid} : users'[u] = users[u]
              /\ stats' = stats
              /\ planreq'[p].pc = "done"]_vars

\* The Pro participant 2 was suspended by a PayPal event that named another
\* plan, and is still Pro on both records.
C36_Witness ==
    \E p \in PlanIds :
        /\ planreq[p].kind = "paypal" /\ planreq[p].event \in SuspendingEvents
        /\ planreq[p].pc = "done" /\ planreq[p].uid = 2
        /\ users[2].status = "SUSPENDED"
        /\ users[2].plan = "pro" /\ stats[2].plan = "pro"

====
